---- MODULE Spec2Model ----
(***************************************************************************)
(* A model of gitscan's scanner package (src/scanner/scanner.go):          *)
(*   - ScanDirectoryWithProgress: the worker pool, its two channels, the   *)
(*     wait group, the collecting loop and the progress callback;          *)
(*   - analyzeRepo / analyzeGoMod: the per-checkout analysis;              *)
(*   - TopologicalSort: Kahn's algorithm over the scanned facts.           *)
(*   - GetInternalDeps / GetTransitiveDependents: the other graph queries; *)
(*   - GetStatus of the CLI and the go-git backend (git_cli.go, git.go).   *)
(* Strings are sequences of one-character strings, so that prefix tests,   *)
(* trimming, splitting and byte-wise comparison are computed, not assumed. *)
(***************************************************************************)
EXTENDS Integers, Sequences, FiniteSets, TLC

(***************************************************************************)
(* Bounds of the model.                                                    *)
(***************************************************************************)
\* number of candidate checkout directories below the scanned root
MaxDirs == 2
\* largest value of opts.Workers that is tried (0 means "use GOMAXPROCS")
MaxWorkers == 3
\* what runtime.GOMAXPROCS(0) answers on the modelled platform
MaxProcs == 1
\* number of facts handed to TopologicalSort
MaxFacts == 3
\* number of facts handed to the graph queries
MaxGraphFacts == 3
\* number of facts handed to TopologicalSort where its termination is checked
MaxFairFacts == 2
\* number of lines of a manifest handed to analyzeGoMod
MaxLines == 4
\* number of characters of a string handed to parseDuration
MaxDurLen == 3

(***************************************************************************)
(* Evaluation order: Bind(v, F) is F(v) with v computed once, the way a Go  *)
(* statement `x := v` computes v once before x is used.                     *)
(***************************************************************************)
Bind(v, F(_)) == CHOOSE r \in {F(x) : x \in {v}} : TRUE

(***************************************************************************)
(* Strings.                                                                *)
(***************************************************************************)
\* the characters that occur, in byte order
Alphabet == <<"\t", " ", "(", ")", ".", "/", "1", "2", "=", ">",
              "a", "b", "c", "d", "e", "f", "g", "h", "i", "l", "m", "n",
              "o", "p", "q", "r", "t", "u", "v", "x", "z">>

CharRank(c) == CHOOSE i \in 1..Len(Alphabet) : Alphabet[i] = c

\* Go's < on strings: byte-wise lexicographic
RECURSIVE StrLess(_, _)
StrLess(s, t) ==
    IF t = <<>> THEN FALSE
    ELSE IF s = <<>> THEN TRUE
    ELSE IF Head(s) = Head(t) THEN StrLess(Tail(s), Tail(t))
    ELSE CharRank(Head(s)) < CharRank(Head(t))

IsSpace(c) == c \in {" ", "\t"}

HasPrefix(s, p) == Len(s) >= Len(p) /\ SubSeq(s, 1, Len(p)) = p

TrimPrefix(s, p) == IF HasPrefix(s, p) THEN SubSeq(s, Len(p) + 1, Len(s)) ELSE s

RECURSIVE TrimLeft(_)
TrimLeft(s) == IF s # <<>> /\ IsSpace(Head(s)) THEN TrimLeft(Tail(s)) ELSE s

RECURSIVE TrimRight(_)
TrimRight(s) ==
    IF s # <<>> /\ IsSpace(s[Len(s)]) THEN TrimRight(SubSeq(s, 1, Len(s) - 1)) ELSE s

TrimSpace(s) == TrimRight(TrimLeft(s))

\* the first whitespace-delimited field of s, "" when there is none
RECURSIVE TakeField(_)
TakeField(s) ==
    IF s = <<>> \/ IsSpace(Head(s)) THEN <<>> ELSE <<Head(s)>> \o TakeField(Tail(s))

FirstField(s) == TakeField(TrimLeft(s))

\* the part of s after its last "/" (all of s when it has none)
RECURSIVE LastSegment(_)
LastSegment(s) ==
    IF \E i \in 1..Len(s) : s[i] = "/"
    THEN LastSegment(Tail(s))
    ELSE s

(***************************************************************************)
(* analyzeGoMod (scanner.go:319-384) and parseRequireLine (386-400).        *)
(***************************************************************************)
StrModuleSp  == <<"m", "o", "d", "u", "l", "e", " ">>
StrReplaceSp == <<"r", "e", "p", "l", "a", "c", "e", " ">>
StrReplaceOp == <<"r", "e", "p", "l", "a", "c", "e", " ", "(">>
StrRequireSp == <<"r", "e", "q", "u", "i", "r", "e", " ">>
StrRequireOp == <<"r", "e", "q", "u", "i", "r", "e", " ", "(">>
StrClose     == <<")">>
StrComment   == <<"/", "/">>

parseRequireLine(raw) ==
    LET line == TrimSpace(raw)
    IN  IF line = <<>> \/ HasPrefix(line, StrComment) THEN <<>> ELSE FirstField(line)

\* the parser's variables before the first line is read
GoModStart ==
    [moduleName |-> <<>>, replaceCount |-> 0, dependencies |-> <<>>,
     inReplaceBlock |-> FALSE, inRequireBlock |-> FALSE]

\* lines 360-380: the require handling of one loop iteration
RequirePart(st, line) ==
    LET single == HasPrefix(line, StrRequireSp) /\ ~HasPrefix(line, StrRequireOp)
        dep1   == parseRequireLine(TrimPrefix(line, StrRequireSp))
        s1     == IF single /\ dep1 # <<>>
                  THEN [st EXCEPT !.dependencies = Append(@, dep1)]
                  ELSE st
        dep2   == parseRequireLine(line)
    IN  IF HasPrefix(line, StrRequireOp)
        THEN [s1 EXCEPT !.inRequireBlock = TRUE]
        ELSE IF s1.inRequireBlock
        THEN IF line = StrClose
             THEN [s1 EXCEPT !.inRequireBlock = FALSE]
             ELSE IF dep2 # <<>>
                  THEN [s1 EXCEPT !.dependencies = Append(@, dep2)]
                  ELSE s1
        ELSE s1

\* lines 333-380: one iteration of the scanning loop
GoModLine(st, line) ==
    LET s1 == IF HasPrefix(line, StrModuleSp)
              THEN [st EXCEPT !.moduleName = TrimSpace(TrimPrefix(line, StrModuleSp))]
              ELSE st
        s2 == IF HasPrefix(line, StrReplaceSp) /\ ~HasPrefix(line, StrReplaceOp)
              THEN [s1 EXCEPT !.replaceCount = @ + 1]
              ELSE s1
    IN  IF HasPrefix(line, StrReplaceOp)
        THEN [s2 EXCEPT !.inReplaceBlock = TRUE]
        ELSE IF s2.inReplaceBlock
        THEN IF line = StrClose
             THEN [s2 EXCEPT !.inReplaceBlock = FALSE]
             ELSE IF line # <<>> /\ ~HasPrefix(line, StrComment)
                  THEN RequirePart([s2 EXCEPT !.replaceCount = @ + 1], line)
                  ELSE RequirePart(s2, line)
        ELSE RequirePart(s2, line)

GoModStep(st, text) == Bind(TrimSpace(text), LAMBDA line : GoModLine(st, line))

\* the loop of lines 332-381 from line i on
RECURSIVE GoModScanFrom(_, _, _)
GoModScanFrom(st, lines, i) ==
    IF i > Len(lines) THEN st
    ELSE Bind(GoModStep(st, lines[i]), LAMBDA s : GoModScanFrom(s, lines, i + 1))

GoModScan(st, lines) == Bind(lines, LAMBDA l : GoModScanFrom(st, l, 1))

\* file: [openErr |-> BOOLEAN, lines |-> sequence of lines]
analyzeGoMod(file) ==
    IF file.openErr
    THEN [moduleName |-> <<>>, replaceCount |-> 0, dependencies |-> <<>>]
    ELSE Bind(GoModScan(GoModStart, file.lines),
              LAMBDA st : [moduleName |-> st.moduleName,
                           replaceCount |-> st.replaceCount,
                           dependencies |-> st.dependencies])

\* moduleMatchesPath (scanner.go:404-412)
moduleMatchesPath(moduleName, dirName) == LastSegment(moduleName) = dirName

(***************************************************************************)
(* The file system the scan reads.                                          *)
(* A checkout is described by what each system call of analyzeRepo answers: *)
(*   gitStat   os.Stat(<repo>/.git): "dir", "file", "missing" or "err"      *)
(*   status    git status --porcelain: "clean", "dirty" or "err"            *)
(*   upstream  git rev-parse @{upstream}: "ok" or "err"                     *)
(*   revlist   git rev-list --count @{upstream}..HEAD: "0", "n" or "err"    *)
(*   goModStat os.Stat(<repo>/go.mod): "ok" or "err"                        *)
(*   goMod     the root manifest, [openErr, lines]                          *)
(*   walkErr   the walk of the checkout's subtree cannot read its root      *)
(*   nested    the other go.mod files of the subtree, [dirs, file]          *)
(*   modTime   the latest modification time below the checkout (0 = zero)   *)
(***************************************************************************)
RootPath == <<"r">>
Slash    == <<"/">>
Join(dir, name) == dir \o Slash \o name

DirLetters == <<"a", "b", "c", "d", "e">>
DirName(k) == <<DirLetters[k]>>
HiddenName == <<".", "h">>
FileName   == <<"f">>
StrVendor  == <<"v", "e", "n", "d", "o", "r">>
StrNodeModules == <<"n", "o", "d", "e", "_", "m", "o", "d", "u", "l", "e", "s">>
StrGoMod   == <<"g", "o", ".", "m", "o", "d">>
StrDot     == <<".">>

\* module identity "x/<name>"
ModOf(name) == <<"x">> \o Slash \o name
Other(k) == IF k = 1 THEN 2 ELSE k - 1

RichManifest(k) ==
    [openErr |-> FALSE,
     lines |-> << StrModuleSp \o ModOf(DirName(k)),
                  <<>>,
                  StrRequireOp,
                  <<"\t">> \o ModOf(DirName(Other(k))) \o <<" ", "v", "1">>,
                  <<"\t">> \o StrComment \o <<" ", "n">>,
                  StrClose,
                  StrReplaceSp \o ModOf(DirName(Other(k))) \o <<" ", "=", ">", " ", ".", ".">> >>]

MismatchManifest(k) ==
    [openErr |-> FALSE,
     lines |-> << StrModuleSp \o ModOf(<<"z", "z">>),
                  StrRequireSp \o ModOf(<<"q">>) \o <<" ", "v", "2">> >>]

NestedManifest(k) ==
    [openErr |-> FALSE,
     lines |-> << StrModuleSp \o ModOf(DirName(k)) \o Slash \o <<"t">> >>]

NoFile == [openErr |-> TRUE, lines |-> <<>>]

\* the checkout named DirName(k) when nothing fails
HealthyEnv(k) ==
    CASE k % 3 = 1 ->
           [gitStat |-> "dir", status |-> "dirty", upstream |-> "ok", revlist |-> "n",
            goModStat |-> "ok", goMod |-> RichManifest(k), walkErr |-> FALSE,
            nested |-> << [dirs |-> << <<"t">> >>, file |-> NestedManifest(k)],
                          [dirs |-> << StrVendor, <<"t">> >>, file |-> NestedManifest(k)] >>,
            modTime |-> k]
      [] k % 3 = 2 ->
           [gitStat |-> "dir", status |-> "clean", upstream |-> "err", revlist |-> "0",
            goModStat |-> "ok", goMod |-> MismatchManifest(k), walkErr |-> FALSE,
            nested |-> <<>>, modTime |-> k]
      [] OTHER ->
           [gitStat |-> "missing", status |-> "err", upstream |-> "err", revlist |-> "err",
            goModStat |-> "err", goMod |-> NoFile, walkErr |-> FALSE,
            nested |-> <<>>, modTime |-> k]

FailModes == {"unreadable", "gitcmd", "open"}

\* the same checkout when the named kind of access fails
FailedEnv(k, mode) ==
    LET h == HealthyEnv(k)
        unopened == [i \in 1..Len(h.nested) |-> [h.nested[i] EXCEPT !.file = NoFile]]
    IN  CASE mode = "unreadable" ->
               [h EXCEPT !.gitStat = "err", !.status = "err", !.upstream = "err",
                         !.revlist = "err", !.goModStat = "err", !.goMod = NoFile,
                         !.walkErr = TRUE]
          [] mode = "gitcmd"  -> [h EXCEPT !.status = "err", !.upstream = "err",
                                           !.revlist = "err"]
          [] OTHER            -> [h EXCEPT !.goMod = NoFile, !.nested = unopened]

(***************************************************************************)
(* analyzeRepo and its helpers (scanner.go:194-317, 575-608).               *)
(***************************************************************************)
ZeroRepoResult ==
    [Name |-> <<>>, Path |-> <<>>, IsGitRepo |-> FALSE, HasGoMod |-> FALSE,
     HasUncommittedChanges |-> FALSE, HasUnpushedCommits |-> FALSE,
     HasReplaceDirectives |-> FALSE, HasModuleMismatch |-> FALSE,
     ModuleName |-> <<>>, ReplaceCount |-> 0, Dependencies |-> <<>>,
     GoModFiles |-> <<>>, LatestModTime |-> 0]

isGitRepo(env) == env.gitStat = "dir"

hasUncommittedChanges(env) == env.status = "dirty"

hasUnpushedCommits(env) ==
    IF env.upstream = "err" THEN TRUE
    ELSE IF env.revlist = "err" THEN FALSE
    ELSE env.revlist # "0"

SkippedDir(name) == HasPrefix(name, StrDot) \/ name = StrVendor \/ name = StrNodeModules

RECURSIVE JoinAll(_)
JoinAll(parts) ==
    IF parts = <<>> THEN <<>>
    ELSE IF Len(parts) = 1 THEN Head(parts)
    ELSE Join(Head(parts), JoinAll(Tail(parts)))

\* the nested manifests the walk reaches, in walk order
findGoModFiles(env) ==
    IF env.walkErr THEN <<>>
    ELSE SelectSeq(env.nested,
                   LAMBDA n : \A i \in 1..Len(n.dirs) : ~SkippedDir(n.dirs[i]))

getLatestModTime(env) == IF env.walkErr THEN 0 ELSE env.modTime

GoModResultOf(n) ==
    Bind(analyzeGoMod(n.file),
         LAMBDA r : [Path |-> JoinAll(Append(n.dirs, StrGoMod)),
                     ModuleName |-> r.moduleName,
                     Dependencies |-> r.dependencies, ReplaceCount |-> r.replaceCount])

\* lines 200-215
GitPart(env, r0, opts) ==
    LET r1 == IF opts.CheckModTime
              THEN [r0 EXCEPT !.LatestModTime = getLatestModTime(env)] ELSE r0
        r2 == [r1 EXCEPT !.IsGitRepo = isGitRepo(env)]
    IN  IF isGitRepo(env)
        THEN [r2 EXCEPT !.HasUncommittedChanges = hasUncommittedChanges(env),
                        !.HasUnpushedCommits =
                            IF opts.CheckUnpushed THEN hasUnpushedCommits(env)
                            ELSE FALSE]
        ELSE r2

\* lines 220-230
GoModPart(r3, gm, name) ==
    [r3 EXCEPT !.HasGoMod = TRUE,
               !.ModuleName = gm.moduleName,
               !.ReplaceCount = gm.replaceCount,
               !.HasReplaceDirectives = gm.replaceCount > 0,
               !.Dependencies = gm.dependencies,
               !.HasModuleMismatch =
                   IF gm.moduleName # <<>>
                   THEN ~moduleMatchesPath(gm.moduleName, name)
                   ELSE FALSE]

\* lines 233-246
RecursePart(env, r4) ==
    Bind(findGoModFiles(env),
         LAMBDA found :
            [r4 EXCEPT !.GoModFiles = [i \in 1..Len(found) |-> GoModResultOf(found[i])]])

analyzeRepoIn(env, repoPath, name, opts) ==
    Bind(GitPart(env, [ZeroRepoResult EXCEPT !.Name = name, !.Path = repoPath], opts),
         LAMBDA r3 :
            Bind(IF env.goModStat = "ok"
                 THEN Bind(analyzeGoMod(env.goMod), LAMBDA gm : GoModPart(r3, gm, name))
                 ELSE r3,
                 LAMBDA r4 : IF opts.Recurse THEN RecursePart(env, r4) ELSE r4))

analyzeRepo(envOfRepo, repoPath, name, opts) ==
    Bind(envOfRepo, LAMBDA env : analyzeRepoIn(env, repoPath, name, opts))

(***************************************************************************)
(* ScanDirectoryWithProgress (scanner.go:107-192).                          *)
(* Positions are counted from 1 here where the Go code counts from 0.       *)
(***************************************************************************)
VARIABLES
    fsys,          \* input: the file system below the root
    opts,          \* input: ScanOptions
    progressFn,    \* input: TRUE when a callback is supplied (progressFn != nil)
    pc,            \* where the calling goroutine is
    dirs,          \* the enumerated directories
    total,
    numWorkers,
    workCh,        \* buffered channel of work items
    workClosed,    \* how many times close(workCh) ran
    resultCh,      \* buffered channel of result items
    resultClosed,  \* how many times close(resultCh) ran
    wg,            \* the wait group's counter
    worker,        \* the worker goroutines: [pc, item]
    sender,        \* the goroutine that sends the work: [pc, i]
    closer,        \* the goroutine that waits and closes resultCh
    results,
    completed,
    ret,           \* what the call returned
    calls,         \* the invocations of the callback so far
    cbActive,      \* invocations of the callback now executing
    delivered,     \* history: names in the order results were sent to resultCh
    analysed,      \* history: per position, the workers that ran analyzeRepo on it
    written,       \* history: per position, how often results[position] was assigned
    panicked,      \* a send on a closed channel or a negative wait group
    ts,            \* the state of one TopologicalSort call
    td,            \* the state of one GetTransitiveDependents / GetInternalDeps call
    gm,            \* the state of one analyzeGoMod call
    gs,            \* the state of one GetStatus call
    pd             \* the state of one parseDuration call

scanVars == <<fsys, opts, progressFn, pc, dirs, total, numWorkers, workCh, workClosed,
              resultCh, resultClosed, wg, worker, sender, closer, results, completed,
              ret, calls, cbActive, delivered, analysed, written, panicked>>

\* the variables ScanDirectoryWithProgress does not touch
otherVars == <<ts, td, gm, gs, pd>>

Kinds == {"absent", "ok", "fail"}

FlagSets ==
    { [Recurse |-> FALSE, CheckModTime |-> FALSE, CheckUnpushed |-> FALSE],
      [Recurse |-> TRUE,  CheckModTime |-> TRUE,  CheckUnpushed |-> TRUE] }

\* what the file system holds for the checkout DirName(k)
EnvOf(fs, k) == IF fs.kind[k] = "fail" THEN FailedEnv(k, fs.failMode) ELSE HealthyEnv(k)

\* the position of a checkout's name among the candidates
KeyOf(name) == CHOOSE k \in 1..MaxDirs : DirName(k) = name

\* os.ReadDir: the entries of the root sorted by file name, or an error
RECURSIVE PresentFrom(_, _)
PresentFrom(fs, k) ==
    IF k > MaxDirs THEN <<>>
    ELSE (IF fs.kind[k] = "absent" THEN <<>> ELSE <<[name |-> DirName(k), isDir |-> TRUE]>>)
         \o PresentFrom(fs, k + 1)

ReadDir(fs) ==
    [err |-> fs.readDirErr,
     entries |-> IF fs.readDirErr THEN <<>>
                 ELSE <<[name |-> HiddenName, isDir |-> TRUE]>>
                      \o PresentFrom(fs, 1)
                      \o <<[name |-> FileName, isDir |-> FALSE]>>]

\* lines 113-123: the first pass over the entries
Scannable(e) == e.isDir /\ ~HasPrefix(e.name, StrDot)
FilterDirs(entries) == SelectSeq(entries, Scannable)

\* NumWorkersFor without the clamp to the number of directories
NumWorkersUnclamped(w, n) ==
    LET a == IF w <= 0 THEN MaxProcs ELSE w
    IN  IF a < 1 THEN 1 ELSE a

\* lines 127-138
NumWorkersFor(w, n) ==
    LET a == IF w <= 0 THEN MaxProcs ELSE w
        b == IF a > n THEN n ELSE a
    IN  IF b < 1 THEN 1 ELSE b

NoItem == [index |-> 0, name |-> <<>>]

ScanInit ==
    /\ fsys \in [readDirErr : BOOLEAN, kind : [1..MaxDirs -> Kinds], failMode : FailModes]
    /\ (\A k \in 1..MaxDirs : fsys.kind[k] # "fail") => fsys.failMode = "unreadable"
    /\ \E f \in FlagSets, w \in 0..MaxWorkers :
          opts = [Recurse |-> f.Recurse, CheckModTime |-> f.CheckModTime,
                  CheckUnpushed |-> f.CheckUnpushed, Workers |-> w]
    /\ progressFn \in BOOLEAN
    /\ pc = "start"
    /\ dirs = <<>>
    /\ total = 0
    /\ numWorkers = 0
    /\ workCh = <<>>
    /\ workClosed = 0
    /\ resultCh = <<>>
    /\ resultClosed = 0
    /\ wg = 0
    /\ worker = <<>>
    /\ sender = [pc |-> "none", i |-> 1]
    /\ closer = "none"
    /\ results = <<>>
    /\ completed = 0
    /\ ret = [returned |-> FALSE, resultsNil |-> TRUE, err |-> FALSE]
    /\ calls = <<>>
    /\ cbActive = 0
    /\ delivered = <<>>
    /\ analysed = <<>>
    /\ written = <<>>
    /\ panicked = FALSE

TopoIdle ==
    [pc |-> "idle", results |-> <<>>, moduleToResult |-> <<>>, inDegree |-> <<>>,
     dependents |-> <<>>, queue |-> <<>>, sorted |-> <<>>, cycles |-> <<>>,
     removed |-> <<>>, enqueued |-> <<>>, readyAt |-> <<>>,
     run |-> 1, prev |-> [sorted |-> <<>>, cycles |-> <<>>]]

\* the variables TopologicalSort does not touch
topoOther == <<scanVars, td, gm, gs, pd>>

DepsIdle ==
    [pc |-> "idle", query |-> "none", seeds |-> <<>>, allResults |-> <<>>,
     result |-> ZeroRepoResult, moduleToResult |-> <<>>, dependents |-> <<>>,
     visited |-> {}, queue |-> <<>>, enqueued |-> <<>>, out |-> <<>>]

\* the variables the dependency queries do not touch
depsOther == <<scanVars, ts, gm, gs, pd>>

GoModIdle ==
    [pc |-> "idle", src |-> <<>>, file |-> NoFile, i |-> 1, st |-> GoModStart,
     out |-> [moduleName |-> <<>>, replaceCount |-> 0, dependencies |-> <<>>]]

\* the variables analyzeGoMod does not touch
goModOther == <<scanVars, ts, td, gs, pd>>

NoRepo ==
    [opens |-> FALSE, head |-> "unborn", upstream |-> "none", originRef |-> FALSE,
     rel |-> "same", dirty |-> FALSE]

GitIdle ==
    [pc |-> "idle", backend |-> "none", repo |-> NoRepo, checkUnpushed |-> FALSE,
     output |-> <<>>, out |-> [hasUncommitted |-> FALSE, hasUnpushed |-> FALSE],
     raised |-> FALSE, fault |-> "none"]

\* the variables GetStatus does not touch
gitOther == <<scanVars, ts, td, gm, pd>>

DurIdle == [pc |-> "idle", s |-> <<>>, out |-> [d |-> 0, err |-> FALSE]]

\* the variables parseDuration does not touch
durOther == <<scanVars, ts, td, gm, gs>>

\* no graph query, parser call, status call or duration parse is running
QueriesIdle == td = DepsIdle /\ gm = GoModIdle /\ gs = GitIdle /\ pd = DurIdle

\* EnumerateFails swallowing the error: an empty result and a nil error
EnumerateFailsSilently ==
    /\ pc = "start"
    /\ ReadDir(fsys).err
    /\ pc' = "returned"
    /\ ret' = [returned |-> TRUE, resultsNil |-> FALSE, err |-> FALSE]
    /\ UNCHANGED <<fsys, opts, progressFn, dirs, total, numWorkers, workCh, workClosed,
                   resultCh, resultClosed, wg, worker, sender, closer, results,
                   completed, calls, cbActive, delivered, analysed, written, panicked>>
    /\ UNCHANGED otherVars

\* lines 108-111: the enumeration fails and the call returns
EnumerateFails ==
    /\ pc = "start"
    /\ ReadDir(fsys).err
    /\ pc' = "returned"
    /\ ret' = [returned |-> TRUE, resultsNil |-> TRUE, err |-> TRUE]
    /\ UNCHANGED <<fsys, opts, progressFn, dirs, total, numWorkers, workCh, workClosed,
                   resultCh, resultClosed, wg, worker, sender, closer, results,
                   completed, calls, cbActive, delivered, analysed, written, panicked>>
    /\ UNCHANGED otherVars

\* lines 108-182: enumerate, size the pool, make the channels, start the goroutines
StartPool ==
    /\ pc = "start"
    /\ ~ReadDir(fsys).err
    /\ \E d \in {FilterDirs(ReadDir(fsys).entries)} :
       \E n \in {NumWorkersFor(opts.Workers, Len(d))} :
           /\ dirs' = d
           /\ total' = Len(d)
           /\ numWorkers' = n
           /\ wg' = n
           /\ worker' = [w \in 1..n |-> [pc |-> "recv", item |-> NoItem]]
           /\ results' = [i \in 1..Len(d) |-> ZeroRepoResult]
           /\ analysed' = [i \in 1..Len(d) |-> <<>>]
           /\ written' = [i \in 1..Len(d) |-> 0]
    /\ sender' = [pc |-> "send", i |-> 1]
    /\ closer' = "wait"
    /\ completed' = 0
    /\ pc' = "collect"
    /\ UNCHANGED <<fsys, opts, progressFn, workCh, workClosed, resultCh, resultClosed,
                   ret, calls, cbActive, delivered, panicked>>
    /\ UNCHANGED otherVars

\* lines 169-171: one iteration of the sending loop
SendWork ==
    /\ sender.pc = "send"
    /\ sender.i <= total
    /\ Len(workCh) < total
    /\ workCh' = Append(workCh, [index |-> sender.i, name |-> dirs[sender.i].name])
    /\ sender' = [sender EXCEPT !.i = @ + 1]
    /\ panicked' = (panicked \/ workClosed > 0)
    /\ UNCHANGED <<fsys, opts, progressFn, pc, dirs, total, numWorkers, workClosed,
                   resultCh, resultClosed, wg, worker, closer, results, completed, ret,
                   calls, cbActive, delivered, analysed, written>>
    /\ UNCHANGED otherVars

\* the sending goroutine ending without closing workCh
SenderEndsWithoutClose ==
    /\ sender.pc = "send"
    /\ sender.i > total
    /\ sender' = [sender EXCEPT !.pc = "done"]
    /\ UNCHANGED <<fsys, opts, progressFn, pc, dirs, total, numWorkers, workCh, workClosed,
                   resultCh, resultClosed, wg, worker, closer, results, completed, ret,
                   calls, cbActive, delivered, analysed, written, panicked>>
    /\ UNCHANGED otherVars

\* line 172
CloseWork ==
    /\ sender.pc = "send"
    /\ sender.i > total
    /\ workClosed' = workClosed + 1
    /\ sender' = [sender EXCEPT !.pc = "done"]
    /\ UNCHANGED <<fsys, opts, progressFn, pc, dirs, total, numWorkers, workCh,
                   resultCh, resultClosed, wg, worker, closer, results, completed, ret,
                   calls, cbActive, delivered, analysed, written, panicked>>
    /\ UNCHANGED otherVars

\* WorkerRecv reading the head of workCh without taking it off the channel
WorkerRecvPeek(w) ==
    /\ w \in DOMAIN worker
    /\ worker[w].pc = "recv"
    /\ workCh # <<>>
    /\ Len(analysed[Head(workCh).index]) < 2
    /\ worker' = [worker EXCEPT ![w] = [pc |-> "busy", item |-> Head(workCh)]]
    /\ workCh' = IF Len(analysed[Head(workCh).index]) = 1 THEN Tail(workCh) ELSE workCh
    /\ UNCHANGED <<fsys, opts, progressFn, pc, dirs, total, numWorkers, workClosed,
                   resultCh, resultClosed, wg, sender, closer, results, completed, ret,
                   calls, cbActive, delivered, analysed, written, panicked>>
    /\ UNCHANGED otherVars

\* line 159: a worker receives a work item
WorkerRecv(w) ==
    /\ w \in DOMAIN worker
    /\ worker[w].pc = "recv"
    /\ workCh # <<>>
    /\ worker' = [worker EXCEPT ![w] =
                     [pc |-> "busy",
                      item |-> Head(workCh)]]
    /\ workCh' = Tail(workCh)
    /\ UNCHANGED <<fsys, opts, progressFn, pc, dirs, total, numWorkers, workClosed,
                   resultCh, resultClosed, wg, sender, closer, results, completed, ret,
                   calls, cbActive, delivered, analysed, written, panicked>>
    /\ UNCHANGED otherVars

\* WorkerFinish tagging the result with its arrival position, not its input index
WorkerFinishArrivalTag(w) ==
    /\ w \in DOMAIN worker
    /\ worker[w].pc = "busy"
    /\ Len(resultCh) < total
    /\ \E it \in {worker[w].item} :
       \E r \in {analyzeRepo(EnvOf(fsys, KeyOf(it.name)), Join(RootPath, it.name),
                              it.name, opts)} :
           /\ resultCh' = Append(resultCh, [index |-> Len(delivered) + 1, result |-> r])
           /\ delivered' = Append(delivered, r.Name)
           /\ analysed' = [analysed EXCEPT ![it.index] = Append(@, w)]
    /\ worker' = [worker EXCEPT ![w] = [pc |-> "recv", item |-> NoItem]]
    /\ panicked' = (panicked \/ resultClosed > 0)
    /\ UNCHANGED <<fsys, opts, progressFn, pc, dirs, total, numWorkers, workCh,
                   workClosed, resultClosed, wg, sender, closer, results, completed,
                   ret, calls, cbActive, written>>
    /\ UNCHANGED otherVars

\* WorkerFinish calling the progress callback from the worker goroutine
WorkerFinishReports(w) ==
    /\ w \in DOMAIN worker
    /\ worker[w].pc = "busy"
    /\ Len(resultCh) < total
    /\ \E it \in {worker[w].item} :
       \E r \in {analyzeRepo(EnvOf(fsys, KeyOf(it.name)), Join(RootPath, it.name),
                              it.name, opts)} :
           /\ resultCh' = Append(resultCh, [index |-> it.index, result |-> r])
           /\ delivered' = Append(delivered, r.Name)
           /\ analysed' = [analysed EXCEPT ![it.index] = Append(@, w)]
           /\ calls' = IF progressFn
                       THEN Append(calls, [current |-> Len(delivered) + 1,
                                           total |-> total, name |-> r.Name,
                                           by |-> "worker"])
                       ELSE calls
           /\ cbActive' = IF progressFn THEN cbActive + 1 ELSE cbActive
    /\ worker' = [worker EXCEPT ![w] = [pc |-> "recv", item |-> NoItem]]
    /\ panicked' = (panicked \/ resultClosed > 0)
    /\ UNCHANGED <<fsys, opts, progressFn, pc, dirs, total, numWorkers, workCh,
                   workClosed, resultClosed, wg, sender, closer, results, completed,
                   ret, written>>
    /\ UNCHANGED otherVars

\* lines 160-162: the worker analyses the checkout it holds and sends the result
WorkerFinish(w) ==
    /\ w \in DOMAIN worker
    /\ worker[w].pc = "busy"
    /\ Len(resultCh) < total
    /\ \E it \in {worker[w].item} :
       \E r \in {analyzeRepo(EnvOf(fsys, KeyOf(it.name)), Join(RootPath, it.name),
                              it.name, opts)} :
           /\ resultCh' = Append(resultCh, [index |-> it.index, result |-> r])
           /\ delivered' = Append(delivered, r.Name)
           /\ analysed' = [analysed EXCEPT ![it.index] = Append(@, w)]
    /\ worker' = [worker EXCEPT ![w] = [pc |-> "recv", item |-> NoItem]]
    /\ panicked' = (panicked \/ resultClosed > 0)
    /\ UNCHANGED <<fsys, opts, progressFn, pc, dirs, total, numWorkers, workCh,
                   workClosed, resultClosed, wg, sender, closer, results, completed,
                   ret, calls, cbActive, written>>
    /\ UNCHANGED otherVars

\* lines 158-159: workCh is closed and drained, the worker leaves its loop
WorkerExit(w) ==
    /\ w \in DOMAIN worker
    /\ worker[w].pc = "recv"
    /\ workCh = <<>>
    /\ workClosed > 0
    /\ worker' = [worker EXCEPT ![w].pc = "done"]
    /\ wg' = wg - 1
    /\ panicked' = (panicked \/ wg - 1 < 0)
    /\ UNCHANGED <<fsys, opts, progressFn, pc, dirs, total, numWorkers, workCh,
                   workClosed, resultCh, resultClosed, sender, closer, results,
                   completed, ret, calls, cbActive, delivered, analysed, written>>
    /\ UNCHANGED otherVars

\* the closing goroutine closing resultCh without waiting for the workers
CloseResultsEarly ==
    /\ closer = "wait"
    /\ resultClosed' = resultClosed + 1
    /\ closer' = "done"
    /\ UNCHANGED <<fsys, opts, progressFn, pc, dirs, total, numWorkers, workCh,
                   workClosed, resultCh, wg, worker, sender, results, completed, ret,
                   calls, cbActive, delivered, analysed, written, panicked>>
    /\ UNCHANGED otherVars

\* lines 177-178
CloseResults ==
    /\ closer = "wait"
    /\ wg = 0
    /\ resultClosed' = resultClosed + 1
    /\ closer' = "done"
    /\ UNCHANGED <<fsys, opts, progressFn, pc, dirs, total, numWorkers, workCh,
                   workClosed, resultCh, wg, worker, sender, results, completed, ret,
                   calls, cbActive, delivered, analysed, written, panicked>>
    /\ UNCHANGED otherVars

\* Collect storing the results in the order they arrive
CollectInArrivalOrder ==
    /\ pc = "collect"
    /\ resultCh # <<>>
    /\ LET item == Head(resultCh)
       IN  /\ results' = [results EXCEPT ![completed + 1] = item.result]
           /\ written' = [written EXCEPT ![completed + 1] = @ + 1]
           /\ completed' = completed + 1
           /\ IF progressFn
              THEN /\ calls' = Append(calls, [current |-> completed + 1, total |-> total,
                                              name |-> item.result.Name,
                                              by |-> "collector"])
                   /\ cbActive' = cbActive + 1
                   /\ pc' = "callback"
              ELSE UNCHANGED <<calls, cbActive, pc>>
    /\ resultCh' = Tail(resultCh)
    /\ UNCHANGED <<fsys, opts, progressFn, dirs, total, numWorkers, workCh, workClosed,
                   resultClosed, wg, worker, sender, closer, ret, delivered, analysed,
                   panicked>>
    /\ UNCHANGED otherVars

\* Collect reporting the name of the next directory in input order
CollectReportsInputOrder ==
    /\ pc = "collect"
    /\ resultCh # <<>>
    /\ LET item == Head(resultCh)
       IN  /\ results' = [results EXCEPT ![item.index] = item.result]
           /\ written' = [written EXCEPT ![item.index] = @ + 1]
           /\ completed' = completed + 1
           /\ IF progressFn
              THEN /\ calls' = Append(calls, [current |-> completed + 1, total |-> total,
                                              name |-> dirs[completed + 1].name,
                                              by |-> "collector"])
                   /\ cbActive' = cbActive + 1
                   /\ pc' = "callback"
              ELSE UNCHANGED <<calls, cbActive, pc>>
    /\ resultCh' = Tail(resultCh)
    /\ UNCHANGED <<fsys, opts, progressFn, dirs, total, numWorkers, workCh, workClosed,
                   resultClosed, wg, worker, sender, closer, ret, delivered, analysed,
                   panicked>>
    /\ UNCHANGED otherVars

\* lines 183-188: the collecting loop takes one result and calls the callback
Collect ==
    /\ pc = "collect"
    /\ resultCh # <<>>
    /\ LET item == Head(resultCh)
       IN  /\ results' = [results EXCEPT ![item.index] = item.result]
           /\ written' = [written EXCEPT ![item.index] = @ + 1]
           /\ completed' = completed + 1
           /\ IF progressFn
              THEN /\ calls' = Append(calls, [current |-> completed + 1, total |-> total,
                                              name |-> item.result.Name,
                                              by |-> "collector"])
                   /\ cbActive' = cbActive + 1
                   /\ pc' = "callback"
              ELSE UNCHANGED <<calls, cbActive, pc>>
    /\ resultCh' = Tail(resultCh)
    /\ UNCHANGED <<fsys, opts, progressFn, dirs, total, numWorkers, workCh, workClosed,
                   resultClosed, wg, worker, sender, closer, ret, delivered, analysed,
                   panicked>>
    /\ UNCHANGED otherVars

\* line 187: the callback returns
ProgressReturns ==
    /\ pc = "callback"
    /\ cbActive' = cbActive - 1
    /\ pc' = "collect"
    /\ UNCHANGED <<fsys, opts, progressFn, dirs, total, numWorkers, workCh, workClosed,
                   resultCh, resultClosed, wg, worker, sender, closer, results,
                   completed, ret, calls, delivered, analysed, written, panicked>>
    /\ UNCHANGED otherVars

\* lines 183, 191: resultCh is closed and drained, the call returns
Return ==
    /\ pc = "collect"
    /\ resultCh = <<>>
    /\ resultClosed > 0
    /\ pc' = "returned"
    /\ ret' = [returned |-> TRUE, resultsNil |-> FALSE, err |-> FALSE]
    /\ UNCHANGED <<fsys, opts, progressFn, dirs, total, numWorkers, workCh, workClosed,
                   resultCh, resultClosed, wg, worker, sender, closer, results,
                   completed, calls, cbActive, delivered, analysed, written, panicked>>
    /\ UNCHANGED otherVars

WorkerIds == 1..(IF MaxDirs > 1 THEN MaxDirs ELSE 1)

ScanNext ==
    \/ EnumerateFails
    \/ StartPool
    \/ SendWork
    \/ CloseWork
    \/ \E w \in WorkerIds : WorkerRecv(w)
    \/ \E w \in WorkerIds : WorkerFinish(w)
    \/ \E w \in WorkerIds : WorkerExit(w)
    \/ CloseResults
    \/ Collect
    \/ ProgressReturns
    \/ Return

\* the scans whose termination is checked: every checkout is readable, no
\* optional analysis is asked for
ScanFairInit ==
    /\ ScanInit
    /\ \A k \in 1..MaxDirs : fsys.kind[k] # "fail"
    /\ ~opts.Recurse /\ ~opts.CheckModTime /\ ~opts.CheckUnpushed
    /\ ts = TopoIdle
    /\ QueriesIdle

\* the scheduler keeps running goroutines: while the caller (lines 108-191), the
\* sender (168-173), a worker (156-164) or the closing goroutine (176-179) can
\* take a step, one of them eventually does; analyzeRepo and the callback return.
\* Fairness towards each single goroutine, which the Go scheduler also gives,
\* is not needed.
ScanFairness == WF_scanVars(ScanNext)

(***************************************************************************)
(* TopologicalSort (scanner.go:497-573), one step per loop of the code.     *)
(* A Go map is a function here; ranging over a map visits its keys in an    *)
(* order the runtime chooses, which is a nondeterministic choice below.     *)
(***************************************************************************)
\* SeedModules taking the identity of every seed, the empty one included
SeedModulesAll(seeds) == {seeds[i].ModuleName : i \in 1..Len(seeds)}

\* a sort that leaves its argument as it is
UnsortedStrings(s) == s

\* slices.Sort on strings
RECURSIVE InsertSorted(_, _)
InsertSorted(x, s) ==
    IF s = <<>> THEN <<x>>
    ELSE IF StrLess(Head(s), x) \/ Head(s) = x
         THEN <<Head(s)>> \o InsertSorted(x, Tail(s))
         ELSE <<x>> \o s

RECURSIVE SortStrings(_)
SortStrings(s) == IF s = <<>> THEN <<>> ELSE InsertSorted(Head(s), SortStrings(Tail(s)))

\* all orders in which the keys in S can be visited
RECURSIVE Orders(_)
Orders(S) ==
    IF S = {} THEN {<<>>}
    ELSE UNION {{<<x>> \o o : o \in Orders(S \ {x})} : x \in S}

HasKey(map, k) == k \in DOMAIN map
Put(map, k, v) == (k :> v) @@ map
Get(map, k, default) == IF HasKey(map, k) THEN map[k] ELSE default

\* lines 501-508 (dirToResult is never read)
RECURSIVE BuildModuleToResult(_, _, _)
BuildModuleToResult(res, i, map) ==
    IF i > Len(res) THEN map
    ELSE BuildModuleToResult(res, i + 1,
             IF res[i].ModuleName # <<>> THEN Put(map, res[i].ModuleName, i) ELSE map)

\* lines 515-520
RECURSIVE ZeroDegrees(_, _, _)
ZeroDegrees(res, i, deg) ==
    IF i > Len(res) THEN deg
    ELSE ZeroDegrees(res, i + 1,
             IF res[i].ModuleName # <<>> THEN Put(deg, res[i].ModuleName, 0) ELSE deg)

\* AddEdges counting every declared dependency, resolvable among the facts or not
RECURSIVE AddEdgesUnresolved(_, _, _, _)
AddEdgesUnresolved(name, deps, m2r, g) ==
    IF deps = <<>> THEN g
    ELSE LET dep == Head(deps)
         IN  Bind([inDegree   |-> Put(g.inDegree, name, g.inDegree[name] + 1),
                   dependents |-> Put(g.dependents, dep,
                                      Append(Get(g.dependents, dep, <<>>), name))],
                  LAMBDA g2 : AddEdgesUnresolved(name, Tail(deps), m2r, g2))

\* lines 526-531: the dependencies of one fact; g is [inDegree, dependents]
RECURSIVE AddEdges(_, _, _, _)
AddEdges(name, deps, m2r, g) ==
    IF deps = <<>> THEN g
    ELSE LET dep == Head(deps)
         IN  Bind(IF HasKey(m2r, dep)
                  THEN [inDegree   |-> Put(g.inDegree, name, g.inDegree[name] + 1),
                        dependents |-> Put(g.dependents, dep,
                                           Append(Get(g.dependents, dep, <<>>), name))]
                  ELSE g,
                  LAMBDA g2 : AddEdges(name, Tail(deps), m2r, g2))

\* lines 522-532
RECURSIVE BuildGraph(_, _, _, _)
BuildGraph(res, i, m2r, g) ==
    IF i > Len(res) THEN g
    ELSE Bind(IF res[i].ModuleName = <<>> THEN g
              ELSE AddEdges(res[i].ModuleName, res[i].Dependencies, m2r, g),
              LAMBDA g2 : BuildGraph(res, i + 1, m2r, g2))

\* Release enqueueing a dependent at its first decrement, whatever its in-degree
RECURSIVE ReleaseEager(_, _)
ReleaseEager(deps, q) ==
    IF deps = <<>> THEN q
    ELSE LET dep == Head(deps)
             d   == q.inDegree[dep] - 1
         IN  Bind([inDegree |-> Put(q.inDegree, dep, d),
                   queue    |-> IF d >= 0 THEN Append(q.queue, dep) ELSE q.queue],
                  LAMBDA q2 : ReleaseEager(Tail(deps), q2))

\* lines 556-561: the sorted dependents of the removed node; q is [inDegree, queue]
RECURSIVE Release(_, _)
Release(deps, q) ==
    IF deps = <<>> THEN q
    ELSE LET dep == Head(deps)
             d   == q.inDegree[dep] - 1
         IN  Bind([inDegree |-> Put(q.inDegree, dep, d),
                   queue    |-> IF d = 0 THEN Append(q.queue, dep) ELSE q.queue],
                  LAMBDA q2 : Release(Tail(deps), q2))

\* lines 499-532
TopoBuild ==
    /\ ts.pc = "build"
    /\ \E m2r \in {BuildModuleToResult(ts.results, 1, <<>>)} :
       \E g \in {BuildGraph(ts.results, 1, m2r,
                             [inDegree   |-> ZeroDegrees(ts.results, 1, <<>>),
                              dependents |-> <<>>])} :
           ts' = [ts EXCEPT !.pc = "seed", !.moduleToResult = m2r,
                            !.inDegree = g.inDegree, !.dependents = g.dependents]
    /\ UNCHANGED topoOther

\* TopoSeed leaving the initial ready set in map order
TopoSeedUnsorted ==
    /\ ts.pc = "seed"
    /\ \E o \in Orders({m \in DOMAIN ts.inDegree : ts.inDegree[m] = 0}) :
          ts' = [ts EXCEPT !.pc = "loop", !.queue = o, !.enqueued = o,
                           !.readyAt = [m \in {o[i] : i \in 1..Len(o)} |-> 0]]
    /\ UNCHANGED topoOther

\* TopoCycles waiting until no identity has a positive in-degree
TopoCyclesWaiting ==
    /\ ts.pc = "loop"
    /\ ts.queue = <<>>
    /\ \A m \in DOMAIN ts.inDegree : ts.inDegree[m] <= 0
    /\ ts' = [ts EXCEPT !.pc = "done", !.cycles = <<>>]
    /\ UNCHANGED topoOther

\* lines 535-542: the initial ready set, collected in map order and then sorted
TopoSeed ==
    /\ ts.pc = "seed"
    /\ \E o \in Orders({m \in DOMAIN ts.inDegree : ts.inDegree[m] = 0}) :
          ts' = [ts EXCEPT !.pc = "loop", !.queue = SortStrings(o),
                           !.enqueued = SortStrings(o),
                           !.readyAt = [m \in {o[i] : i \in 1..Len(o)} |-> 0]]
    /\ UNCHANGED topoOther

\* lines 545-562: one iteration of the removal loop
TopoStep ==
    /\ ts.pc = "loop"
    /\ ts.queue # <<>>
    /\ \E mod \in {Head(ts.queue)} :
       \E deps \in {SortStrings(Get(ts.dependents, mod, <<>>))} :
       \E q \in {Release(deps, [inDegree |-> ts.inDegree, queue |-> Tail(ts.queue)])} :
           ts' = [ts EXCEPT
                    !.sorted = IF HasKey(ts.moduleToResult, mod)
                               THEN Append(@, ts.results[ts.moduleToResult[mod]])
                               ELSE @,
                    !.dependents = IF HasKey(ts.dependents, mod)
                                   THEN Put(@, mod, deps) ELSE @,
                    !.inDegree = q.inDegree,
                    !.queue = q.queue,
                    !.removed = Append(@, mod),
                    !.enqueued = @ \o SubSeq(q.queue, Len(ts.queue), Len(q.queue)),
                    !.readyAt = [m \in {q.queue[i] : i \in Len(ts.queue)..Len(q.queue)}
                                   |-> Len(ts.removed) + 1] @@ @]
    /\ UNCHANGED topoOther

\* lines 564-572: the loop has ended; the cycle members, collected in map order
TopoCycles ==
    /\ ts.pc = "loop"
    /\ ts.queue = <<>>
    /\ \E o \in Orders({m \in DOMAIN ts.inDegree : ts.inDegree[m] > 0}) :
          ts' = [ts EXCEPT !.pc = "done", !.cycles = o]
    /\ UNCHANGED topoOther

\* the inputs TopologicalSort is tried on
IdA  == <<"a">>
IdAB == <<"a", "b">>
IdB  == <<"b">>
TopoModules == { <<>>, IdA, IdAB, IdB }
TopoDeps == { <<>>, <<IdA>>, <<IdAB>>, <<IdB>>, <<IdA, IdA>>, <<IdB, IdA>> }

TopoFact(k, m, d) ==
    [ZeroRepoResult EXCEPT !.Name = DirName(k), !.ModuleName = m, !.Dependencies = d]

\* the scanner's variables while no scan runs
ScanIdle ==
    /\ fsys = [readDirErr |-> FALSE, kind |-> [k \in 1..MaxDirs |-> "absent"],
               failMode |-> "unreadable"]
    /\ opts = [Recurse |-> FALSE, CheckModTime |-> FALSE, CheckUnpushed |-> FALSE,
               Workers |-> 0]
    /\ progressFn = FALSE
    /\ pc = "idle"
    /\ dirs = <<>>
    /\ total = 0
    /\ numWorkers = 0
    /\ workCh = <<>>
    /\ workClosed = 0
    /\ resultCh = <<>>
    /\ resultClosed = 0
    /\ wg = 0
    /\ worker = <<>>
    /\ sender = [pc |-> "none", i |-> 1]
    /\ closer = "none"
    /\ results = <<>>
    /\ completed = 0
    /\ ret = [returned |-> FALSE, resultsNil |-> TRUE, err |-> FALSE]
    /\ calls = <<>>
    /\ cbActive = 0
    /\ delivered = <<>>
    /\ analysed = <<>>
    /\ written = <<>>
    /\ panicked = FALSE

TopoInit ==
    /\ ScanIdle
    /\ QueriesIdle
    /\ \E n \in 0..MaxFacts :
          \E ms \in [1..n -> TopoModules], ds \in [1..n -> TopoDeps] :
             ts = [TopoIdle EXCEPT !.pc = "build",
                                   !.results = [k \in 1..n |-> TopoFact(k, ms[k], ds[k])]]

TopoNext ==
    \/ TopoBuild
    \/ TopoSeed
    \/ TopoStep
    \/ TopoCycles

\* the caller sorts the same facts once more: a second call on the same input
TopoAgain ==
    /\ ts.pc = "done"
    /\ ts.run = 1
    /\ ts' = [TopoIdle EXCEPT !.pc = "build", !.results = ts.results, !.run = 2,
                              !.prev = [sorted |-> ts.sorted, cycles |-> ts.cycles]]
    /\ UNCHANGED topoOther

(***************************************************************************)
(* GetInternalDeps (scanner.go:416-433).                                    *)
(***************************************************************************)
\* lines 418-423
RECURSIVE BuildModuleToDir(_, _, _)
BuildModuleToDir(res, i, map) ==
    IF i > Len(res) THEN map
    ELSE BuildModuleToDir(res, i + 1,
             IF res[i].ModuleName # <<>> THEN Put(map, res[i].ModuleName, res[i].Name)
             ELSE map)

\* InternalOf looking the dependencies up in sorted order
RECURSIVE InternalOfSorted(_, _, _)
InternalOfSorted(deps, moduleToDir, internal) ==
    IF deps = <<>> THEN internal
    ELSE Bind(SortStrings(deps),
              LAMBDA s : InternalOfSorted(Tail(s), moduleToDir,
                             IF HasKey(moduleToDir, Head(s))
                             THEN Append(internal, moduleToDir[Head(s)])
                             ELSE internal))

\* lines 426-431
RECURSIVE InternalOf(_, _, _)
InternalOf(deps, moduleToDir, internal) ==
    IF deps = <<>> THEN internal
    ELSE InternalOf(Tail(deps), moduleToDir,
             IF HasKey(moduleToDir, Head(deps))
             THEN Append(internal, moduleToDir[Head(deps)])
             ELSE internal)

GetInternalDeps(result, allResults) ==
    Bind(BuildModuleToDir(allResults, 1, <<>>),
         LAMBDA moduleToDir : InternalOf(result.Dependencies, moduleToDir, <<>>))

(***************************************************************************)
(* GetTransitiveDependents (scanner.go:437-495).                            *)
(***************************************************************************)
\* lines 452-456: the dependencies of one fact
RECURSIVE AddDependents(_, _, _, _)
AddDependents(name, deps, m2r, dependents) ==
    IF deps = <<>> THEN dependents
    ELSE Bind(IF HasKey(m2r, Head(deps))
              THEN Put(dependents, Head(deps),
                       Append(Get(dependents, Head(deps), <<>>), name))
              ELSE dependents,
              LAMBDA d2 : AddDependents(name, Tail(deps), m2r, d2))

\* lines 447-457
RECURSIVE BuildDependents(_, _, _, _)
BuildDependents(res, i, m2r, dependents) ==
    IF i > Len(res) THEN dependents
    ELSE Bind(IF res[i].ModuleName = <<>> THEN dependents
              ELSE AddDependents(res[i].ModuleName, res[i].Dependencies, m2r, dependents),
              LAMBDA d2 : BuildDependents(res, i + 1, m2r, d2))

\* lines 460-465
SeedModules(seeds) ==
    {seeds[i].ModuleName : i \in {j \in 1..Len(seeds) : seeds[j].ModuleName # <<>>}}

\* Visit enqueueing a dependent whether or not it was seen before
RECURSIVE VisitAgain(_, _)
VisitAgain(deps, v) ==
    IF deps = <<>> THEN v
    ELSE Bind([visited |-> v.visited \cup {Head(deps)},
               queue   |-> Append(v.queue, Head(deps))],
              LAMBDA v2 : VisitAgain(Tail(deps), v2))

\* lines 478-483: the dependents of the removed node; v is [visited, queue]
RECURSIVE Visit(_, _)
Visit(deps, v) ==
    IF deps = <<>> THEN v
    ELSE Bind(IF Head(deps) \notin v.visited
              THEN [visited |-> v.visited \cup {Head(deps)},
                    queue   |-> Append(v.queue, Head(deps))]
              ELSE v,
              LAMBDA v2 : Visit(Tail(deps), v2))

\* lines 439-457
DepsBuild ==
    /\ td.pc = "build"
    /\ \E m2r \in {BuildModuleToResult(td.allResults, 1, <<>>)} :
       \E d \in {BuildDependents(td.allResults, 1, m2r, <<>>)} :
          td' = [td EXCEPT !.pc = "seed", !.moduleToResult = m2r, !.dependents = d]
    /\ UNCHANGED depsOther

\* lines 460-472: the seed identities enter the queue in map order
DepsSeed ==
    /\ td.pc = "seed"
    /\ \E o \in Orders(SeedModules(td.seeds)) :
          td' = [td EXCEPT !.pc = "loop", !.queue = o, !.enqueued = o,
                           !.visited = SeedModules(td.seeds)]
    /\ UNCHANGED depsOther

\* lines 474-484: one iteration of the traversal
DepsStep ==
    /\ td.pc = "loop"
    /\ td.queue # <<>>
    /\ \E v \in {Visit(Get(td.dependents, Head(td.queue), <<>>),
                       [visited |-> td.visited, queue |-> Tail(td.queue)])} :
          td' = [td EXCEPT !.visited = v.visited, !.queue = v.queue,
                           !.enqueued = @ \o SubSeq(v.queue, Len(td.queue), Len(v.queue))]
    /\ UNCHANGED depsOther

\* lines 486-494: the traversal has ended; the visited facts in input order
DepsCollect ==
    /\ td.pc = "loop"
    /\ td.queue = <<>>
    /\ td' = [td EXCEPT !.pc = "done",
                        !.out = SelectSeq(td.allResults,
                                    LAMBDA r : r.ModuleName # <<>>
                                               /\ r.ModuleName \in td.visited)]
    /\ UNCHANGED depsOther

\* one call of GetInternalDeps
DepsInternal ==
    /\ td.pc = "internal"
    /\ td' = [td EXCEPT !.pc = "done", !.out = GetInternalDeps(td.result, td.allResults)]
    /\ UNCHANGED depsOther

DepsNext ==
    \/ DepsBuild
    \/ DepsSeed
    \/ DepsStep
    \/ DepsCollect
    \/ DepsInternal

\* the facts the three graph queries are tried on
GraphDeps == { <<>>, <<IdA>>, <<IdB, IdB>>, <<IdAB, IdA>> }

GraphFacts(n) ==
    { [k \in 1..n |-> TopoFact(k, ms[k], ds[k])] :
          ms \in [1..n -> TopoModules], ds \in [1..n -> GraphDeps] }

\* the selections of facts a caller passes as seeds: none, the first, the last,
\* the first two
SeedChoices(facts) ==
    { SelectSeq(facts, LAMBDA f : f.Name \in {facts[i].Name : i \in S \cap DOMAIN facts}) :
          S \in { {}, {1}, {Len(facts)}, {1, 2} } }

\* one call of TopologicalSort on the facts
GraphTopoInit(facts) ==
    /\ ts = [TopoIdle EXCEPT !.pc = "build", !.results = facts]
    /\ td = DepsIdle

\* one call of GetTransitiveDependents or of GetInternalDeps on the facts
GraphDepsInit(facts) ==
    /\ ts = TopoIdle
    /\ \/ \E seeds \in SeedChoices(facts) :
             td = [DepsIdle EXCEPT !.pc = "build", !.query = "dependents",
                                   !.seeds = seeds, !.allResults = facts]
       \/ \E k \in {1, Len(facts)} \cap DOMAIN facts :
             td = [DepsIdle EXCEPT !.pc = "internal", !.query = "internal",
                                   !.result = facts[k], !.allResults = facts]

GraphInit ==
    /\ ScanIdle
    /\ pd = DurIdle
    /\ gm = GoModIdle
    /\ gs = GitIdle
    /\ \E n \in 0..MaxGraphFacts :
          \E facts \in GraphFacts(n) : GraphTopoInit(facts) \/ GraphDepsInit(facts)

GraphNext ==
    \/ TopoNext
    \/ TopoAgain
    \/ DepsNext

TopoFairInit ==
    /\ ScanIdle
    /\ QueriesIdle
    /\ \E n \in 0..MaxFairFacts :
          \E facts \in GraphFacts(n) : ts = [TopoIdle EXCEPT !.pc = "build", !.results = facts]

(***************************************************************************)
(* One call of analyzeGoMod (scanner.go:319-384), line by line.             *)
(***************************************************************************)
StrIdA   == <<"x", "/", "a">>
StrIdB   == <<"x", "/", "b">>
StrArrow == <<" ", "=", ">", " ", ".", ".", "/">>
StrV1    == <<" ", "v", "1">>
StrTab   == <<"\t">>

\* the lines manifests are made of, each with the kind of line it is in go.mod
LinePool ==
    << [kind |-> "module",        text |-> StrModuleSp \o StrIdA],
       [kind |-> "module",        text |-> StrModuleSp \o StrIdB],
       [kind |-> "openReplace",   text |-> StrReplaceOp],
       [kind |-> "openRequire",   text |-> StrRequireOp],
       [kind |-> "close",         text |-> StrClose],
       [kind |-> "replaceEntry",  text |-> StrTab \o <<"a">> \o StrArrow \o <<"a">>],
       [kind |-> "replaceEntry",  text |-> StrTab \o <<"b">> \o StrArrow \o <<"b">>],
       [kind |-> "requireEntry",  text |-> StrTab \o StrIdB \o StrV1],
       [kind |-> "replaceSingle", text |-> StrReplaceSp \o <<"a">> \o StrArrow \o <<"a">>],
       [kind |-> "requireSingle", text |-> StrRequireSp \o StrIdA \o StrV1],
       [kind |-> "comment",       text |-> StrTab \o StrComment \o <<" ", "c">>] >>

\* the manifest file made of the given lines
ManifestOf(src) == [openErr |-> FALSE, lines |-> [k \in DOMAIN src |-> src[k].text]]

GoModInit ==
    /\ ScanIdle
    /\ pd = DurIdle
    /\ ts = TopoIdle
    /\ td = DepsIdle
    /\ gs = GitIdle
    /\ \/ gm = [GoModIdle EXCEPT !.pc = "open"]
       \/ \E n \in 0..MaxLines :
             \E c \in [1..n -> 1..Len(LinePool)] :
                gm = [GoModIdle EXCEPT !.pc = "open",
                                       !.src = [k \in 1..n |-> LinePool[c[k]]],
                                       !.file = ManifestOf([k \in 1..n |-> LinePool[c[k]]])]

\* lines 320-323: the file cannot be opened
GoModOpenFails ==
    /\ gm.pc = "open"
    /\ gm.file.openErr
    /\ gm' = [gm EXCEPT !.pc = "done",
                        !.out = [moduleName |-> <<>>, replaceCount |-> 0,
                                 dependencies |-> <<>>]]
    /\ UNCHANGED goModOther

\* lines 320-330
GoModOpen ==
    /\ gm.pc = "open"
    /\ ~gm.file.openErr
    /\ gm' = [gm EXCEPT !.pc = "scan", !.i = 1, !.st = GoModStart]
    /\ UNCHANGED goModOther

\* GoModReadLine handing the line to the loop body as it was read
GoModReadLineUntrimmed ==
    /\ gm.pc = "scan"
    /\ gm.i <= Len(gm.file.lines)
    /\ \E s \in {GoModLine(gm.st, gm.file.lines[gm.i])} :
          gm' = [gm EXCEPT !.st = s, !.i = @ + 1]
    /\ UNCHANGED goModOther

\* lines 332-381: one iteration of the scanning loop
GoModReadLine ==
    /\ gm.pc = "scan"
    /\ gm.i <= Len(gm.file.lines)
    /\ \E s \in {GoModStep(gm.st, gm.file.lines[gm.i])} :
          gm' = [gm EXCEPT !.st = s, !.i = @ + 1]
    /\ UNCHANGED goModOther

\* line 383: the scanner has no more lines
GoModReturn ==
    /\ gm.pc = "scan"
    /\ gm.i > Len(gm.file.lines)
    /\ gm' = [gm EXCEPT !.pc = "done",
                        !.out = [moduleName |-> gm.st.moduleName,
                                 replaceCount |-> gm.st.replaceCount,
                                 dependencies |-> gm.st.dependencies]]
    /\ UNCHANGED goModOther

GoModNext ==
    \/ GoModOpenFails
    \/ GoModOpen
    \/ GoModReadLine
    \/ GoModReturn

(***************************************************************************)
(* GetStatus of the two backends (git_cli.go:33-68, git.go:31-105) and the  *)
(* scanner's own helpers (scanner.go:206-215, 290-317).                     *)
(* A repository is described by what the backends can observe of it:        *)
(*   opens      the path is a repository git and go-git can open            *)
(*   head       "branch", "detached" or "unborn" (no commit yet)            *)
(*   upstream   "origin" when the branch has a configured upstream          *)
(*              (origin/<branch>), "none" otherwise                         *)
(*   originRef  the reference refs/remotes/origin/<branch> exists           *)
(*   rel        HEAD against that reference: "same", "ahead", "behind" or   *)
(*              "diverged"                                                  *)
(*   dirty      the working tree has uncommitted changes                    *)
(***************************************************************************)
Heads == {"branch", "detached", "unborn"}
Rels  == {"same", "ahead", "behind", "diverged"}

Repos ==
    {NoRepo} \cup
    { r \in [opens : {TRUE}, head : Heads, upstream : {"none", "origin"},
             originRef : BOOLEAN, rel : Rels, dirty : BOOLEAN] :
        /\ r.head # "branch" => r.upstream = "none" /\ ~r.originRef
        /\ r.upstream = "origin" => r.originRef
        /\ ~r.originRef => r.rel = "same" }

Backends == {"cli", "gogit", "scanner"}

\* the call of go-git that returns an error, if any: Worktree or Status
\* (git.go:38-46), Head (61), CommitObject of HEAD (82), CommitObject of the
\* remote reference (87), IsAncestor (98)
Faults == {"none", "status", "head", "headCommit", "remoteCommit", "ancestry"}

StrNewline  == <<"\n">>
StrHashes   == <<"#", "#", " ">>
StrMain     == <<"m", "a", "i", "n">>
StrDots     == <<".", ".", ".">>
StrOrigin   == <<"o", "r", "i", "g", "i", "n", "/">>
StrAhead    == <<"[", "a", "h", "e", "a", "d">>
StrBehind   == <<"b", "e", "h", "i", "n", "d", " ", "1">>
StrNoBranch == <<"H", "E", "A", "D", " ", "(", "n", "o", " ", "b", "r", "a", "n", "c", "h", ")">>
StrNoCommit == <<"N", "o", " ", "c", "o", "m", "m", "i", "t", "s", " ", "y", "e", "t", " ",
                 "o", "n", " ">>
StrModified == <<" ", "M", " ", "f">>

\* the tracking information git appends to the branch line
TrackingOf(rel) ==
    CASE rel = "ahead"    -> <<" ">> \o StrAhead \o <<" ", "1", "]">>
      [] rel = "behind"   -> <<" ", "[">> \o StrBehind \o <<"]">>
      [] rel = "diverged" -> <<" ">> \o StrAhead \o <<" ", "1", ",", " ">> \o StrBehind \o <<"]">>
      [] OTHER            -> <<>>

\* the first line of `git status --porcelain -b`
BranchLineOf(repo) ==
    StrHashes \o
    CASE repo.head = "unborn"   -> StrNoCommit \o StrMain
      [] repo.head = "detached" -> StrNoBranch
      [] repo.upstream = "none" -> StrMain
      [] OTHER -> StrMain \o StrDots \o StrOrigin \o StrMain \o TrackingOf(repo.rel)

\* what `git status --porcelain -b` prints
StatusOutputOf(repo) ==
    BranchLineOf(repo) \o StrNewline
    \o (IF repo.dirty THEN StrModified \o StrNewline ELSE <<>>)

\* strings.Split(s, "\n")
RECURSIVE SplitLines(_, _)
SplitLines(s, cur) ==
    IF s = <<>> THEN <<cur>>
    ELSE IF Head(s) = "\n" THEN <<cur>> \o SplitLines(Tail(s), <<>>)
    ELSE SplitLines(Tail(s), Append(cur, Head(s)))

\* strings.Contains
StrContains(s, sub) ==
    \E i \in 0..(Len(s) - Len(sub)) : SubSeq(s, i + 1, i + Len(sub)) = sub

\* git_cli.go:40-67
CliParseStatus(output, checkUnpushed) ==
    LET lines      == SplitLines(output, <<>>)
        branchLine == lines[1]
    IN  [hasUncommitted |-> \E k \in 2..Len(lines) : TrimSpace(lines[k]) # <<>>,
         hasUnpushed    |-> /\ checkUnpushed
                            /\ \/ StrContains(branchLine, StrAhead)
                               \/ ~StrContains(branchLine, StrDots)]

\* go-git's Commit.IsAncestor of the HEAD commit, applied to the commit of the remote
\* reference: true when HEAD is an ancestor of that commit
HeadIsAncestorOfRemote(repo) == repo.rel \in {"same", "behind"}

\* git.go:59-105
GoGitHasUnpushed(repo, fault) ==
    IF repo.head = "unborn" \/ fault = "head" THEN TRUE
    ELSE IF repo.head # "branch" THEN FALSE
    ELSE IF ~repo.originRef THEN TRUE
    ELSE IF fault = "headCommit" THEN FALSE
    ELSE IF fault = "remoteCommit" THEN TRUE
    ELSE IF repo.rel = "same" THEN FALSE
    ELSE IF fault = "ancestry" THEN TRUE
    ELSE HeadIsAncestorOfRemote(repo)

\* what the git commands of scanner.go:281-317 answer for the repository
ScannerEnvOf(repo) ==
    [gitStat  |-> IF repo.opens THEN "dir" ELSE "missing",
     status   |-> IF ~repo.opens THEN "err" ELSE IF repo.dirty THEN "dirty" ELSE "clean",
     upstream |-> IF repo.opens /\ repo.head = "branch" /\ repo.upstream = "origin"
                  THEN "ok" ELSE "err",
     revlist  |-> IF ~(repo.opens /\ repo.head = "branch" /\ repo.upstream = "origin")
                  THEN "err"
                  ELSE IF repo.rel \in {"ahead", "diverged"} THEN "n" ELSE "0"]

NoStatus == [hasUncommitted |-> FALSE, hasUnpushed |-> FALSE]

GitInit ==
    /\ ScanIdle
    /\ pd = DurIdle
    /\ ts = TopoIdle
    /\ td = DepsIdle
    /\ gm = GoModIdle
    /\ \E b \in Backends, r \in Repos, c \in BOOLEAN, f \in Faults :
          /\ f # "none" => b = "gogit" /\ r.opens
          /\ gs = [GitIdle EXCEPT !.pc = "start", !.backend = b, !.repo = r,
                                  !.checkUnpushed = c, !.fault = f]

\* git_cli.go:34-38: the command fails
CliStatusFails ==
    /\ gs.pc = "start"
    /\ gs.backend = "cli"
    /\ ~gs.repo.opens
    /\ gs' = [gs EXCEPT !.pc = "done", !.out = NoStatus]
    /\ UNCHANGED gitOther

\* git_cli.go:34-35: the command prints the status
CliStatusRuns ==
    /\ gs.pc = "start"
    /\ gs.backend = "cli"
    /\ gs.repo.opens
    /\ gs' = [gs EXCEPT !.pc = "parse", !.output = StatusOutputOf(gs.repo)]
    /\ UNCHANGED gitOther

\* git_cli.go:40-67
CliParse ==
    /\ gs.pc = "parse"
    /\ gs' = [gs EXCEPT !.pc = "done",
                        !.out = CliParseStatus(gs.output, gs.checkUnpushed)]
    /\ UNCHANGED gitOther

\* git.go:32-35
GoGitOpenFails ==
    /\ gs.pc = "start"
    /\ gs.backend = "gogit"
    /\ ~gs.repo.opens
    /\ gs' = [gs EXCEPT !.pc = "done", !.out = NoStatus]
    /\ UNCHANGED gitOther

\* git.go:38-46: the work tree or its status cannot be read
GoGitStatusFails ==
    /\ gs.pc = "start"
    /\ gs.backend = "gogit"
    /\ gs.repo.opens
    /\ gs.fault = "status"
    /\ gs' = [gs EXCEPT !.pc = "done", !.out = NoStatus]
    /\ UNCHANGED gitOther

\* GetStatus that determines the unpushed state whether asked to or not
GoGitStatusUnconditional ==
    /\ gs.pc = "start"
    /\ gs.backend = "gogit"
    /\ gs.repo.opens
    /\ gs.fault # "status"
    /\ gs' = [gs EXCEPT !.pc = "unpushed",
                        !.out = [hasUncommitted |-> gs.repo.dirty, hasUnpushed |-> FALSE]]
    /\ UNCHANGED gitOther

\* git.go:32-55: the work tree's status, and whether the unpushed check is asked for
GoGitStatus ==
    /\ gs.pc = "start"
    /\ gs.backend = "gogit"
    /\ gs.repo.opens
    /\ gs.fault # "status"
    /\ gs' = [gs EXCEPT !.pc = IF gs.checkUnpushed THEN "unpushed" ELSE "done",
                        !.out = [hasUncommitted |-> gs.repo.dirty, hasUnpushed |-> FALSE]]
    /\ UNCHANGED gitOther

\* git.go:52, 59-105
GoGitUnpushed ==
    /\ gs.pc = "unpushed"
    /\ gs' = [gs EXCEPT !.pc = "done", !.out.hasUnpushed = GoGitHasUnpushed(gs.repo, gs.fault)]
    /\ UNCHANGED gitOther

\* scanner.go:206-215: the status fields analyzeRepo computes with its own helpers
ScannerStatus ==
    /\ gs.pc = "start"
    /\ gs.backend = "scanner"
    /\ \E env \in {ScannerEnvOf(gs.repo)} :
          gs' = [gs EXCEPT !.pc = "done",
                           !.out = IF isGitRepo(env)
                                   THEN [hasUncommitted |-> hasUncommittedChanges(env),
                                         hasUnpushed    |-> /\ gs.checkUnpushed
                                                            /\ hasUnpushedCommits(env)]
                                   ELSE NoStatus]
    /\ UNCHANGED gitOther

GitNext ==
    \/ CliStatusFails
    \/ CliStatusRuns
    \/ CliParse
    \/ GoGitOpenFails
    \/ GoGitStatusFails
    \/ GoGitStatus
    \/ GoGitUnpushed
    \/ ScannerStatus

(***************************************************************************)
(* parseDuration (cmd/shared.go:62-90, and its copy cmd/root.go:376-404).   *)
(* A time.Duration is counted in minutes here: the inputs are written with  *)
(* DurAlphabet, in which the only units of time.ParseDuration that can be   *)
(* spelled are "h" and "m", so every duration is a whole number of minutes  *)
(* and stays far below the int64 range of the nanosecond count.             *)
(***************************************************************************)
Minute == 1
Hour   == 60 * Minute

DurAlphabet == {"0", "1", "2", "h", "m", "d", "w", "x", "-"}

DigitChars == <<"0", "1", "2", "3", "4", "5", "6", "7", "8", "9">>

IsDigit(c) == \E i \in DOMAIN DigitChars : DigitChars[i] = c

DigitVal(c) == (CHOOSE i \in DOMAIN DigitChars : DigitChars[i] = c) - 1

\* the length of the leading run of digits
RECURSIVE DigitsLen(_)
DigitsLen(s) ==
    IF s # <<>> /\ IsDigit(Head(s)) THEN 1 + DigitsLen(Tail(s)) ELSE 0

\* the number a string of digits denotes (strconv.Atoi, time's leadingInt)
RECURSIVE AtoiFrom(_, _)
AtoiFrom(s, acc) ==
    IF s = <<>> THEN acc ELSE AtoiFrom(Tail(s), acc * 10 + DigitVal(Head(s)))

Atoi(s) == AtoiFrom(s, 0)

\* the length of the leading run of characters that are neither a digit nor "."
RECURSIVE UnitLen(_)
UnitLen(s) ==
    IF s # <<>> /\ ~IsDigit(Head(s)) /\ Head(s) # "." THEN 1 + UnitLen(Tail(s)) ELSE 0

\* time's unitMap, for the units DurAlphabet can spell; 0 for an unknown unit
UnitMap(u) ==
    CASE u = <<"h">> -> Hour
      [] u = <<"m">> -> Minute
      [] OTHER       -> 0

DurErr == [d |-> 0, err |-> TRUE]

\* the loop of time.ParseDuration: ([0-9]*[a-z]+)+, the terms added up
RECURSIVE ParseTerms(_, _)
ParseTerms(s, d) ==
    IF s = <<>> THEN [d |-> d, err |-> FALSE]
    ELSE IF ~IsDigit(Head(s)) THEN DurErr
    ELSE LET n    == DigitsLen(s)
             rest == SubSeq(s, n + 1, Len(s))
             k    == UnitLen(rest)
             unit == UnitMap(SubSeq(rest, 1, k))
         IN  IF k = 0 THEN DurErr
             ELSE IF unit = 0 THEN DurErr
             ELSE ParseTerms(SubSeq(rest, k + 1, Len(rest)),
                             d + Atoi(SubSeq(s, 1, n)) * unit)

\* time.ParseDuration: [-+]?([0-9]*[a-z]+)+, or "0"
TimeParseDuration(s) ==
    LET signed == s # <<>> /\ Head(s) \in {"-", "+"}
        neg    == s # <<>> /\ Head(s) = "-"
        t      == IF signed THEN Tail(s) ELSE s
        r      == ParseTerms(t, 0)
    IN  IF t = <<"0">> THEN [d |-> 0, err |-> FALSE]
        ELSE IF t = <<>> THEN DurErr
        ELSE IF r.err THEN DurErr
        ELSE [d |-> IF neg THEN 0 - r.d ELSE r.d, err |-> FALSE]

\* regexp ^(\d+)([dwm])$
CustomMatch(s) ==
    /\ Len(s) >= 2
    /\ \A i \in 1..(Len(s) - 1) : IsDigit(s[i])
    /\ s[Len(s)] \in {"d", "w", "m"}

\* cmd/shared.go:77-89
CustomDuration(s) ==
    LET value == Atoi(SubSeq(s, 1, Len(s) - 1))
        unit  == s[Len(s)]
    IN  CASE unit = "d" -> [d |-> value * 24 * Hour, err |-> FALSE]
          [] unit = "w" -> [d |-> value * 7 * 24 * Hour, err |-> FALSE]
          [] unit = "m" -> [d |-> value * 30 * 24 * Hour, err |-> FALSE]
          [] OTHER      -> DurErr

\* cmd/shared.go:64-90
parseDuration(s) ==
    IF ~TimeParseDuration(s).err THEN TimeParseDuration(s)
    ELSE IF ~CustomMatch(s) THEN DurErr
    ELSE CustomDuration(s)

DurInit ==
    /\ ScanIdle
    /\ ts = TopoIdle
    /\ td = DepsIdle
    /\ gm = GoModIdle
    /\ gs = GitIdle
    /\ \E n \in 0..MaxDurLen :
          \E s \in [1..n -> DurAlphabet] : pd = [DurIdle EXCEPT !.pc = "start", !.s = s]

\* cmd/shared.go:66-68: the string is a standard Go duration
DurStandard ==
    /\ pd.pc = "start"
    /\ ~TimeParseDuration(pd.s).err
    /\ pd' = [pd EXCEPT !.pc = "done", !.out = TimeParseDuration(pd.s)]
    /\ UNCHANGED durOther

\* cmd/shared.go:71-75: neither a standard duration nor digits and d, w or m
DurInvalid ==
    /\ pd.pc = "start"
    /\ TimeParseDuration(pd.s).err
    /\ ~CustomMatch(pd.s)
    /\ pd' = [pd EXCEPT !.pc = "done", !.out = DurErr]
    /\ UNCHANGED durOther

\* cmd/shared.go:77-89: digits and d, w or m
DurCustom ==
    /\ pd.pc = "start"
    /\ TimeParseDuration(pd.s).err
    /\ CustomMatch(pd.s)
    /\ pd' = [pd EXCEPT !.pc = "done", !.out = CustomDuration(pd.s)]
    /\ UNCHANGED durOther

DurNext ==
    \/ DurStandard
    \/ DurInvalid
    \/ DurCustom

(***************************************************************************)
(* Specifications.                                                          *)
(***************************************************************************)
vars == <<scanVars, ts, td, gm, gs, pd>>

Init == ScanInit /\ ts = TopoIdle /\ QueriesIdle

Next == ScanNext

\* one call of ScanDirectoryWithProgress
Spec == Init /\ [][Next]_vars

\* one call of TopologicalSort
SpecTopo == TopoInit /\ [][TopoNext]_vars

\* one graph query on a set of facts; TopologicalSort is called a second time
SpecGraph == GraphInit /\ [][GraphNext]_vars

\* one call of analyzeGoMod
SpecGoMod == GoModInit /\ [][GoModNext]_vars

\* one call of GetStatus, or of the scanner's own status helpers
SpecGit == GitInit /\ [][GitNext]_vars

\* one call of ScanDirectoryWithProgress under fair scheduling
SpecScanFair == ScanFairInit /\ [][ScanNext]_vars /\ ScanFairness

\* one call of parseDuration
SpecDur == DurInit /\ [][DurNext]_vars

\* one call of TopologicalSort that keeps running until it returns
SpecTopoFair == TopoFairInit /\ [][TopoNext]_vars /\ WF_vars(TopoNext)

(***************************************************************************)
(* Properties of ScanDirectoryWithProgress, checked under Spec.             *)
(***************************************************************************)
Returned   == ret.returned
ReturnedOk == ret.returned /\ ~ret.err

Max2(a, b) == IF a > b THEN a ELSE b
Min2(a, b) == IF a < b THEN a ELSE b

\* the checkouts the file system holds below the root
PresentKeys == {k \in 1..MaxDirs : fsys.kind[k] # "absent"}

\* the workers that hold a work item and have not yet delivered its result
Busy == {w \in DOMAIN worker : worker[w].pc = "busy"}

\* the fact of the checkout DirName(k) as analyzeRepo computes it from env
FactOf(env, k) == analyzeRepo(env, Join(RootPath, DirName(k)), DirName(k), opts)

\* C1: on return results[i] is the fact of the i-th enumerated directory, for every
\* worker count and every order in which the workers complete.
C1_InputOrder ==
    ReturnedOk =>
        /\ Len(results) = Len(dirs)
        /\ \A i \in 1..Len(dirs) : results[i].Name = dirs[i].name

\* a scan has returned whose second directory was completed first
C1_Witness ==
    /\ ReturnedOk
    /\ total >= 2
    /\ numWorkers >= 2
    /\ delivered[1] = dirs[2].name

\* C2: every enumerated subdirectory is analysed exactly once, by one worker, and on
\* return every slot of the result has been written exactly once (also with no
\* directory at all).
C2_ExactlyOnce ==
    /\ \A i \in DOMAIN analysed : Len(analysed[i]) <= 1 /\ written[i] <= 1
    /\ \A w \in Busy : analysed[worker[w].item.index] = <<>>
    /\ \A w1, w2 \in Busy : w1 # w2 => worker[w1].item.index # worker[w2].item.index
    /\ ReturnedOk =>
          /\ Len(results) = Cardinality(PresentKeys)
          /\ \A k \in PresentKeys : \E i \in 1..Len(dirs) : dirs[i].name = DirName(k)
          /\ \A i \in 1..Len(results) :
                /\ Len(analysed[i]) = 1
                /\ written[i] = 1
                /\ results[i] # ZeroRepoResult

\* a scan has returned in which two different workers analysed a directory each
C2_Witness ==
    /\ ReturnedOk
    /\ total = MaxDirs
    /\ \E i, j \in 1..total : analysed[i] # analysed[j]

\* the result a scan with one worker returns: the directories analysed one after
\* the other in enumeration order
RECURSIVE SequentialScan(_)
SequentialScan(d) ==
    IF d = <<>> THEN <<>>
    ELSE <<FactOf(EnvOf(fsys, KeyOf(Head(d).name)), KeyOf(Head(d).name))>>
         \o SequentialScan(Tail(d))

\* C3: the returned sequence does not depend on the worker count: with any number
\* of workers it is the sequence a scan with Workers=1 returns.
C3_WorkerCountInvariant ==
    ReturnedOk => results = SequentialScan(FilterDirs(ReadDir(fsys).entries))

\* a scan with two workers has returned after completing in reverse input order
C3_Witness ==
    /\ ReturnedOk
    /\ opts.Workers = 2
    /\ total = 2
    /\ delivered = <<dirs[2].name, dirs[1].name>>

\* C4: with a callback supplied the k-th invocation receives k, the fixed total and
\* the name of the k-th result delivered by a worker, and there are exactly total
\* invocations on return.
C4_ProgressCalls ==
    /\ progressFn =>
          /\ Len(calls) = completed
          /\ \A k \in 1..Len(calls) :
                /\ calls[k].current = k
                /\ calls[k].total = Cardinality(PresentKeys)
                /\ calls[k].name = delivered[k]
          /\ ReturnedOk => Len(calls) = Cardinality(PresentKeys)
    /\ ~progressFn => calls = <<>>

\* the callback has been invoked for every directory, first for the second one
C4_Witness ==
    /\ ReturnedOk
    /\ progressFn
    /\ Len(calls) >= 2
    /\ calls[1].name = dirs[2].name

\* C5: only the collecting loop invokes the callback; no two invocations overlap.
C5_SingleCaller ==
    /\ cbActive <= 1
    /\ cbActive = 1 <=> pc = "callback"
    /\ \A k \in 1..Len(calls) : calls[k].by = "collector"

\* the callback is executing while a worker analyses another checkout
C5_Witness ==
    /\ cbActive = 1
    /\ pc = "callback"
    /\ Busy # {}

\* C6: the pool has min(max(W,1), max(total,1)) workers, W being opts.Workers when
\* positive and the platform's parallelism otherwise, and never more checkouts than
\* that are under analysis.
C6_PoolSize ==
    pc \notin {"start", "idle"} /\ ~ret.err =>
        LET W == IF opts.Workers > 0 THEN opts.Workers ELSE MaxProcs
            n == Min2(Max2(W, 1), Max2(Cardinality(PresentKeys), 1))
        IN  /\ numWorkers = n
            /\ Cardinality(DOMAIN worker) = n
            /\ Cardinality({worker[w].item.index : w \in Busy}) <= n
            /\ Cardinality(Busy) <= n

\* more workers were asked for than there are directories, and all run
C6_Witness ==
    /\ opts.Workers > total
    /\ total >= 2
    /\ Cardinality(Busy) = numWorkers

\* C7: the call returns an error exactly when the enumeration of the root fails,
\* and then it returns nil results, has started no worker and made no callback.
C7_ErrorIffEnumerationFails ==
    /\ Returned => (ret.err <=> fsys.readDirErr)
    /\ Returned /\ ret.err =>
          /\ ret.resultsNil
          /\ worker = <<>>
          /\ numWorkers = 0
          /\ analysed = <<>>
          /\ calls = <<>>
          /\ cbActive = 0
    /\ ReturnedOk => ~ret.resultsNil

\* the enumeration failed and the call has returned
C7_Witness ==
    /\ Returned
    /\ fsys.readDirErr
    /\ progressFn
    /\ opts.Workers > 0

\* the fact of a failing checkout that the failure policy asks for: the healthy
\* fact with the fields of the failed operations at their zero values
DegradedFact(k) ==
    LET h == FactOf(HealthyEnv(k), k)
    IN  CASE fsys.failMode = "unreadable" ->
               [ZeroRepoResult EXCEPT !.Name = h.Name, !.Path = h.Path]
          [] fsys.failMode = "gitcmd" ->
               [h EXCEPT !.HasUncommittedChanges = FALSE, !.HasUnpushedCommits = FALSE]
          [] OTHER ->
               [h EXCEPT !.ModuleName = <<>>, !.ReplaceCount = 0,
                         !.Dependencies = <<>>, !.HasReplaceDirectives = FALSE,
                         !.HasModuleMismatch = FALSE,
                         !.GoModFiles = [i \in 1..Len(h.GoModFiles) |->
                                            [h.GoModFiles[i] EXCEPT
                                                !.ModuleName = <<>>,
                                                !.Dependencies = <<>>,
                                                !.ReplaceCount = 0]]]

\* C8: whatever subset of the checkouts fails, the scan returns no error and a
\* full-length result, every failing checkout's fact is degraded to its default
\* state, and every other fact is what a scan without failures computes.
C8_FailuresDegrade ==
    Returned /\ ~fsys.readDirErr =>
        /\ ~ret.err
        /\ Len(results) = Cardinality(PresentKeys)
        /\ \A i \in 1..Len(results) :
              LET k == KeyOf(dirs[i].name)
              IN  results[i] = IF fsys.kind[k] = "fail"
                               THEN DegradedFact(k)
                               ELSE FactOf(HealthyEnv(k), k)

(***************************************************************************)
(* Properties of TopologicalSort, checked under SpecTopo.                   *)
(***************************************************************************)
Contains(seq, x) == \E i \in 1..Len(seq) : seq[i] = x

\* C9: of two facts in ordered, the one the other depends on comes first.
C9_DependenciesFirst ==
    \A p, q \in 1..Len(ts.sorted) :
        Contains(ts.sorted[p].Dependencies, ts.sorted[q].ModuleName) => q < p

\* a chain of three has been ordered, the last fact first
C9_Witness ==
    /\ ts.pc = "done"
    /\ Len(ts.sorted) = 3
    /\ Contains(ts.sorted[3].Dependencies, ts.sorted[2].ModuleName)
    /\ Contains(ts.sorted[2].Dependencies, ts.sorted[1].ModuleName)
    /\ ts.sorted[1].Name = DirName(3)
    /\ ts.sorted[3].Name = DirName(1)

\* the identities with in-degree zero that have not been removed
Ready ==
    {m \in DOMAIN ts.inDegree : ts.inDegree[m] = 0 /\ ~Contains(ts.removed, m)}

\* C10 as claimed: the node removed next is the smallest of all ready nodes.
C10_SmallestReadyFirst ==
    ts.pc = "loop" /\ ts.queue # <<>> =>
        \A m \in Ready : ~StrLess(m, Head(ts.queue))

\* C10 as the code has it: the ready nodes wait in a first-in first-out queue; the
\* initial ready set enters it in ascending order, and the nodes one removal makes
\* ready enter it in ascending order behind those already waiting. So the node
\* removed next is the one that became ready earliest, the smallest identity first
\* among those that became ready at the same step.
C10_FifoAscendingPerStep ==
    ts.pc = "loop" =>
        /\ {ts.queue[i] : i \in 1..Len(ts.queue)} = Ready
        /\ \A i, j \in 1..Len(ts.queue) :
              i < j =>
                 \/ ts.readyAt[ts.queue[i]] < ts.readyAt[ts.queue[j]]
                 \/ /\ ts.readyAt[ts.queue[i]] = ts.readyAt[ts.queue[j]]
                    /\ StrLess(ts.queue[i], ts.queue[j])

\* two nodes made ready by the same removal wait in the queue
C10_Witness ==
    /\ ts.pc = "loop"
    /\ Len(ts.queue) = 2
    /\ ts.readyAt[ts.queue[1]] = 1
    /\ ts.readyAt[ts.queue[2]] = 1

\* the sender, every worker and the closing goroutine have finished
GoroutinesFinished ==
    /\ sender.pc \in {"none", "done"}
    /\ closer \in {"none", "done"}
    /\ \A w \in DOMAIN worker : worker[w].pc = "done"

\* C28: under fair scheduling, with every analysis and every callback returning,
\* the call returns with the sender, the workers and the closing goroutine
\* finished, for zero or more directories and every worker count; until it has
\* returned some goroutine can always take a step.
C28_ScanTerminates ==
    /\ [](Returned \/ ENABLED <<ScanNext>>_scanVars)
    /\ [](Returned => GoroutinesFinished)
    /\ <>Returned

\* two workers shared two directories and the call has returned
C28_Witness ==
    /\ Returned
    /\ total = 2
    /\ numWorkers = 2
    /\ analysed[1] # analysed[2]
    /\ GoroutinesFinished

\* C29: workCh is closed once, after every work item was sent; resultCh is closed
\* once, after every worker has left its loop; nothing is sent on a closed channel
\* and the wait group never goes negative; a worker holding a result always finds
\* room in resultCh, however far behind the collector is.
C29_ChannelProtocol ==
    /\ workClosed <= 1
    /\ resultClosed <= 1
    /\ workClosed > 0 => sender.pc = "done" /\ sender.i = total + 1
    /\ resultClosed > 0 => /\ workClosed > 0
                           /\ \A w \in DOMAIN worker : worker[w].pc = "done"
    /\ ~panicked
    /\ \A w \in DOMAIN worker : worker[w].pc = "busy" => Len(resultCh) < total
    /\ ReturnedOk => workClosed = 1 /\ resultClosed = 1

\* both channels are closed and resultCh is full: the workers have sent both
\* results while the collector has not taken any
C29_Witness ==
    /\ total = 2
    /\ numWorkers = 2
    /\ Len(resultCh) = total
    /\ completed = 0
    /\ workClosed = 1
    /\ resultClosed = 1

(***************************************************************************)
(* Properties of the graph queries, checked under SpecGraph, SpecTopo and   *)
(* SpecTopoFair.                                                            *)
(***************************************************************************)
\* C11: two calls of TopologicalSort on the same facts return the same ordered
\* sequence, in whatever order either call visits its maps.
C11_OrderedDeterministic ==
    ts.pc = "done" /\ ts.run = 2 => ts.sorted = ts.prev.sorted

\* the second call has returned; both calls found three identities ready at once
C11_Witness ==
    /\ ts.pc = "done"
    /\ ts.run = 2
    /\ Len(ts.sorted) = 3
    /\ \A m \in DOMAIN ts.readyAt : ts.readyAt[m] = 0

\* the identities of the facts: the nodes of the dependency graph
Ids(facts) == {facts[i].ModuleName : i \in DOMAIN facts} \ {<<>>}

\* the identities among the facts that some fact with identity m declares
DirectDeps(facts, m) ==
    {d \in Ids(facts) :
        \E i \in DOMAIN facts :
            facts[i].ModuleName = m /\ Contains(facts[i].Dependencies, d)}

RECURSIVE Closure(_, _)
Closure(facts, S) ==
    LET T == S \cup UNION {DirectDeps(facts, m) : m \in S}
    IN  IF T = S THEN S ELSE Closure(facts, T)

\* what m depends on, directly or through a chain of dependencies
DepsPlus(facts, m) == Closure(facts, DirectDeps(facts, m))

OnCycle(facts, m) == m \in DepsPlus(facts, m)

DependsOnCycle(facts, m) ==
    OnCycle(facts, m) \/ \E c \in DepsPlus(facts, m) : OnCycle(facts, c)

EnqueuedOnce ==
    \A i, j \in 1..Len(ts.enqueued) : i # j => ts.enqueued[i] # ts.enqueued[j]

\* C13: TopologicalSort returns on every input, also with cycles, self-dependencies
\* and duplicated dependency entries; no identity enters the ready queue twice and
\* no more removals happen than there are identities.
C13_Terminates ==
    /\ [](EnqueuedOnce /\ Len(ts.removed) <= Cardinality(Ids(ts.results)))
    /\ <>(ts.pc = "done")

\* the call has returned for two facts that depend on each other, one of them
\* declaring the other twice: nothing was ordered and both are reported
C13_Witness ==
    /\ ts.pc = "done"
    /\ Len(ts.cycles) = 2
    /\ ts.sorted = <<>>
    /\ \E i, j \in DOMAIN ts.results :
          /\ ts.results[i].ModuleName = IdA
          /\ ts.results[i].Dependencies = <<IdB, IdB>>
          /\ ts.results[j].ModuleName = IdB
          /\ ts.results[j].Dependencies = <<IdA>>

\* the non-empty identities of the seeds
SeedIds == {td.seeds[i].ModuleName : i \in DOMAIN td.seeds} \ {<<>>}

\* m is a seed identity or depends on one through identities of allResults
ReachesSeed(m) == m \in SeedIds \/ DepsPlus(td.allResults, m) \cap SeedIds # {}

\* C14: GetTransitiveDependents returns, once each and in input order, exactly the
\* facts with a non-empty identity that is a seed identity or reaches one through a
\* chain of dependencies between identities of allResults; the traversal enqueues
\* no identity twice.
C14_TransitiveDependents ==
    td.query = "dependents" =>
        /\ \A i, j \in 1..Len(td.enqueued) : i # j => td.enqueued[i] # td.enqueued[j]
        /\ Len(td.enqueued) <= Cardinality(Ids(td.allResults) \cup SeedIds)
        /\ td.pc = "done" =>
              td.out = SelectSeq(td.allResults,
                           LAMBDA f : f.ModuleName # <<>> /\ ReachesSeed(f.ModuleName))

\* for the chain A -> B -> C and the seed C the call has returned A, B and C
C14_Witness ==
    /\ td.query = "dependents"
    /\ td.pc = "done"
    /\ Len(td.seeds) = 1
    /\ td.seeds[1].Dependencies = <<>>
    /\ Len(td.out) = 3
    /\ Len(td.enqueued) = 3
    /\ \E i, j \in 1..3 :
          /\ Contains(td.out[i].Dependencies, td.out[j].ModuleName)
          /\ Contains(td.out[j].Dependencies, td.seeds[1].ModuleName)
          /\ ~Contains(td.out[i].Dependencies, td.seeds[1].ModuleName)

\* the declared dependencies of the fact that are identities of allResults
ManagedDeps == SelectSeq(td.result.Dependencies, LAMBDA d : d \in Ids(td.allResults))

\* C15: GetInternalDeps returns one directory name per declared dependency that is
\* the non-empty identity of a fact of allResults, the name of a fact with that
\* identity, in the order of fact.Dependencies, and nothing else.
C15_InternalDeps ==
    td.query = "internal" /\ td.pc = "done" =>
        /\ Len(td.out) = Len(ManagedDeps)
        /\ \A j \in 1..Len(td.out) :
              \E i \in DOMAIN td.allResults :
                  /\ td.allResults[i].ModuleName = ManagedDeps[j]
                  /\ td.allResults[i].Name = td.out[j]

\* two dependencies declared in descending order were both resolved, a third fact
\* is no dependency
C15_Witness ==
    /\ td.query = "internal"
    /\ td.pc = "done"
    /\ td.result.Dependencies = <<IdAB, IdA>>
    /\ Len(td.out) = 2
    /\ td.out[1] # td.out[2]
    /\ Len(td.allResults) = 3

\* the directory names of the facts without an identity
UnidentifiedNames(facts) ==
    {facts[i].Name : i \in {j \in DOMAIN facts : facts[j].ModuleName = <<>>}}

\* C16: a fact with an empty identity stays in the facts handed to the queries but is
\* never in ordered or cyclic, never a seed, never visited or returned by
\* GetTransitiveDependents, and its directory name is never emitted by
\* GetInternalDeps.
C16_EmptyIdentityExcluded ==
    /\ \A p \in 1..Len(ts.sorted) : ts.sorted[p].ModuleName # <<>>
    /\ ~Contains(ts.cycles, <<>>)
    /\ ~Contains(ts.queue, <<>>)
    /\ <<>> \notin td.visited
    /\ ~Contains(td.enqueued, <<>>)
    /\ td.query = "dependents" =>
          \A p \in 1..Len(td.out) : td.out[p].ModuleName # <<>>
    /\ td.query = "internal" =>
          \A p \in 1..Len(td.out) : td.out[p] \notin UnidentifiedNames(td.allResults)

\* a fact without identity was passed as a seed next to one with an identity, and
\* the call returned the latter
C16_Witness ==
    /\ td.query = "dependents"
    /\ td.pc = "done"
    /\ Len(td.seeds) = 2
    /\ td.seeds[1].ModuleName = <<>>
    /\ td.seeds[1].Dependencies # <<>>
    /\ Len(td.out) >= 1
    /\ UnidentifiedNames(td.allResults) # {}

(***************************************************************************)
(* Properties of analyzeGoMod, checked under SpecGoMod.                     *)
(***************************************************************************)
\* go.mod's block structure: directives and block openings stand outside blocks, an
\* entry stands inside a block of its own kind, and every block is closed
RECURSIVE WellFormedFrom(_, _, _)
WellFormedFrom(src, i, block) ==
    IF i > Len(src) THEN block = "none"
    ELSE CASE src[i].kind \in {"module", "replaceSingle", "requireSingle"} ->
                block = "none" /\ WellFormedFrom(src, i + 1, block)
           [] src[i].kind = "openReplace" ->
                block = "none" /\ WellFormedFrom(src, i + 1, "replace")
           [] src[i].kind = "openRequire" ->
                block = "none" /\ WellFormedFrom(src, i + 1, "require")
           [] src[i].kind = "close" ->
                block # "none" /\ WellFormedFrom(src, i + 1, "none")
           [] src[i].kind = "replaceEntry" ->
                block = "replace" /\ WellFormedFrom(src, i + 1, block)
           [] src[i].kind = "requireEntry" ->
                block = "require" /\ WellFormedFrom(src, i + 1, block)
           [] OTHER -> WellFormedFrom(src, i + 1, block)

WellFormed(src) ==
    /\ WellFormedFrom(src, 1, "none")
    /\ Cardinality({i \in DOMAIN src : src[i].kind = "module"}) <= 1

\* the same directives written one per line: the blocks' delimiters dropped and each
\* entry prefixed with its keyword
SingleForm(src) ==
    LET kept == SelectSeq(src, LAMBDA l : l.kind \notin {"openReplace", "openRequire", "close"})
    IN  [k \in DOMAIN kept |->
            CASE kept[k].kind = "replaceEntry" ->
                   [kind |-> "replaceSingle", text |-> StrReplaceSp \o TrimSpace(kept[k].text)]
              [] kept[k].kind = "requireEntry" ->
                   [kind |-> "requireSingle", text |-> StrRequireSp \o TrimSpace(kept[k].text)]
              [] OTHER -> kept[k]]

CountKinds(src, kinds) == Cardinality({i \in DOMAIN src : src[i].kind \in kinds})

\* C17: for a well-formed manifest the override count and the dependency sequence
\* are those of the same directives written one per line, and the override count is
\* the number of override directives, in a block or not.
C17_FormIndependent ==
    gm.pc = "done" /\ ~gm.file.openErr /\ WellFormed(gm.src) =>
        /\ gm.out = analyzeGoMod(ManifestOf(SingleForm(gm.src)))
        /\ gm.out.replaceCount = CountKinds(gm.src, {"replaceEntry", "replaceSingle"})
        /\ Len(gm.out.dependencies) = CountKinds(gm.src, {"requireEntry", "requireSingle"})

\* a block `replace (` with the entries a and b and `)` was parsed: two overrides
C17_Witness ==
    /\ gm.pc = "done"
    /\ Len(gm.src) = 4
    /\ gm.src[1].kind = "openReplace"
    /\ gm.src[2].kind = "replaceEntry"
    /\ gm.src[3].kind = "replaceEntry"
    /\ gm.src[2] # gm.src[3]
    /\ gm.src[4].kind = "close"
    /\ gm.out.replaceCount = 2

\* the positions of the lines that declare the module identity
ModuleLines(src) == {i \in DOMAIN src : src[i].kind = "module"}

\* the identity a module line declares
DeclaredIdentity(l) == SubSeq(l.text, Len(StrModuleSp) + 1, Len(l.text))

\* C18: the identity returned is the one the first module line declares; later
\* module lines are ignored.
C18_FirstModuleWins ==
    gm.pc = "done" /\ ModuleLines(gm.src) # {} =>
        gm.out.moduleName =
            DeclaredIdentity(gm.src[CHOOSE i \in ModuleLines(gm.src) :
                                        \A j \in ModuleLines(gm.src) : i <= j])

\* C24: after any number of lines of any manifest, analyzeGoMod is not inside a
\* replace block and inside a require block at the same time.
C24_BlocksExclusive ==
    ~(gm.st.inReplaceBlock /\ gm.st.inRequireBlock)

(***************************************************************************)
(* Properties of the status backends, checked under SpecGit.                *)
(***************************************************************************)
\* C19: with checkUnpushed set, a readable repository in detached-HEAD state is reported
\* without unpushed commits by the CLI backend, the go-git backend and the
\* scanner's own helper.
C19_DetachedNotUnpushed ==
    /\ gs.pc = "done"
    /\ gs.checkUnpushed
    /\ gs.repo.opens
    /\ gs.repo.head = "detached"
    /\ gs.fault = "none"
    => ~gs.out.hasUnpushed

\* C20: with checkUnpushed set, a readable repository on a branch without a configured
\* upstream is reported with unpushed commits by the CLI and the go-git backend.
C20_NoUpstreamUnpushed ==
    /\ gs.pc = "done"
    /\ gs.checkUnpushed
    /\ gs.backend \in {"cli", "gogit"}
    /\ gs.repo.opens
    /\ gs.repo.head = "branch"
    /\ gs.repo.upstream = "none"
    /\ gs.fault = "none"
    => gs.out.hasUnpushed

\* the common cases: a branch with a configured upstream, strictly ahead of it,
\* strictly behind it or at the same commit, with a clean or dirty working tree
CommonCase(repo) ==
    /\ repo.opens
    /\ repo.head = "branch"
    /\ repo.upstream = "origin"
    /\ repo.rel \in {"same", "ahead", "behind"}

\* C21: in the common cases, every read of the repository succeeding, the CLI and
\* the go-git backend return the same pair:
\* hasUncommitted tells whether the working tree is dirty, and hasUnpushed (when
\* asked for) is true when the branch is ahead and false when it is behind or at
\* the same commit.
C21_BackendsAgree ==
    /\ gs.pc = "done"
    /\ gs.backend \in {"cli", "gogit"}
    /\ CommonCase(gs.repo)
    /\ gs.fault = "none"
    => /\ gs.out.hasUncommitted = gs.repo.dirty
       /\ gs.out.hasUnpushed = (gs.checkUnpushed /\ gs.repo.rel = "ahead")

\* C22: when checkUnpushed is false the unpushed-commit determination is not
\* performed and hasUnpushed is false, whatever the repository's state: in the CLI
\* backend, in the go-git backend (which never enters hasUnpushedCommits) and in
\* the status fields analyzeRepo fills in.
C22_UncheckedNotUnpushed ==
    ~gs.checkUnpushed => /\ ~gs.out.hasUnpushed
                         /\ gs.pc # "unpushed"

\* the go-git backend answered for a dirty branch without upstream, which it would
\* report as unpushed had it been asked
C22_Witness ==
    /\ gs.pc = "done"
    /\ gs.backend = "gogit"
    /\ ~gs.checkUnpushed
    /\ gs.fault = "none"
    /\ gs.repo.opens
    /\ gs.repo.head = "branch"
    /\ ~gs.repo.originRef
    /\ gs.repo.dirty
    /\ GoGitHasUnpushed(gs.repo, gs.fault)
    /\ gs.out = [hasUncommitted |-> TRUE, hasUnpushed |-> FALSE]

\* the positions of the facts that carry a module identity
Identified(facts) == {i \in DOMAIN facts : facts[i].ModuleName # <<>>}

\* C30: every fact with a non-empty identity, also one that shares its identity
\* with another fact, is in ordered exactly once or has its identity in cyclic, and
\* ordered and cyclic together have as many entries as there are such facts.
C30_EveryFactAccounted ==
    ts.pc = "done" =>
        /\ \A i \in Identified(ts.results) :
              \/ Cardinality({k \in DOMAIN ts.sorted : ts.sorted[k] = ts.results[i]}) = 1
              \/ Contains(ts.cycles, ts.results[i].ModuleName)
        /\ Len(ts.sorted) + Len(ts.cycles) = Cardinality(Identified(ts.results))

\* an operation on the repository that GetStatus performed has failed
OperationFailed ==
    \/ ~gs.repo.opens
    \/ gs.fault = "status"
    \/ /\ gs.checkUnpushed
       /\ \/ gs.fault = "head"
          \/ /\ gs.repo.head = "branch"
             /\ gs.repo.originRef
             /\ \/ gs.fault \in {"headCommit", "remoteCommit"}
                \/ gs.fault = "ancestry" /\ gs.repo.rel # "same"

\* the current branch, with or without a commit, has no configured upstream
NoUpstreamCase ==
    /\ gs.repo.opens
    /\ gs.repo.head \in {"branch", "unborn"}
    /\ gs.repo.upstream = "none"

\* HEAD was compared with its upstream and has commits the upstream lacks
AheadDetermined ==
    /\ gs.repo.opens
    /\ gs.fault = "none"
    /\ gs.repo.head = "branch"
    /\ gs.repo.upstream = "origin"
    /\ gs.repo.rel \in {"ahead", "diverged"}

\* C27: GetStatus of either backend never raises; when an operation on the
\* repository fails it returns (false, false); and it returns hasUnpushed = true
\* only after finding HEAD ahead of its upstream or for a branch without a
\* configured upstream.
C27_FailuresReturnFalse ==
    /\ ~gs.raised
    /\ gs.pc = "done" /\ gs.backend \in {"cli", "gogit"} =>
          /\ OperationFailed => gs.out = NoStatus
          /\ gs.out.hasUnpushed => AheadDetermined \/ NoUpstreamCase

(***************************************************************************)
(* Properties of parseDuration, checked under SpecDur.                      *)
(***************************************************************************)
\* the input is a non-empty string of digits followed by the unit
NumberAndUnit(s, unit) ==
    /\ Len(s) >= 2
    /\ \A i \in 1..(Len(s) - 1) : IsDigit(s[i])
    /\ s[Len(s)] = unit

NumberOf(s) == Atoi(SubSeq(s, 1, Len(s) - 1))

\* C23: "<N>h" is N hours, "<N>d" N days, "<N>w" N times 7 days and "<N>m" N
\* months of 30 days; a string that is neither a standard duration nor digits
\* followed by d, w or m is an error.
C23_ParseDuration ==
    pd.pc = "done" =>
        /\ NumberAndUnit(pd.s, "h") => pd.out = [d |-> NumberOf(pd.s) * Hour, err |-> FALSE]
        /\ NumberAndUnit(pd.s, "d") => pd.out = [d |-> NumberOf(pd.s) * 24 * Hour, err |-> FALSE]
        /\ NumberAndUnit(pd.s, "w") =>
              pd.out = [d |-> NumberOf(pd.s) * 7 * 24 * Hour, err |-> FALSE]
        /\ NumberAndUnit(pd.s, "m") =>
              pd.out = [d |-> NumberOf(pd.s) * 30 * 24 * Hour, err |-> FALSE]
        /\ (TimeParseDuration(pd.s).err /\ ~CustomMatch(pd.s)) => pd.out.err

(***************************************************************************)
(* Further properties of TopologicalSort.                                   *)
(***************************************************************************)
\* C25: two calls of TopologicalSort on the same facts return the same cyclic
\* sequence, the identities in the same order, in whatever order either call
\* visits its maps.
C25_CyclesReproducible ==
    ts.pc = "done" /\ ts.run = 2 => ts.cycles = ts.prev.cycles

\* what the identities in S depend on, directly or through a chain; direct maps
\* an identity to the identities it depends on directly
RECURSIVE ClosureOf(_, _)
ClosureOf(direct, S) ==
    LET T == S \cup UNION {direct[m] : m \in S}
    IN  IF T = S THEN S ELSE ClosureOf(direct, T)

\* the identities that lie on a cycle of dependencies or depend, directly or
\* through a chain, on one that does
CyclicIds(facts) ==
    Bind([m \in Ids(facts) |-> DirectDeps(facts, m)], LAMBDA direct :
    Bind([m \in DOMAIN direct |-> ClosureOf(direct, direct[m])], LAMBDA reach :
         {m \in DOMAIN reach : \E c \in reach[m] \cup {m} : c \in reach[c]}))

\* C26: an identity is in cyclic exactly when it lies on a cycle of dependencies
\* among the facts' identities or depends, directly or through a chain, on an
\* identity that does; every other identity is the identity of a fact in ordered.
C26_CyclicIffOnCycle ==
    ts.pc = "done" =>
        \E cyclic \in {CyclicIds(ts.results)} :
            /\ {ts.cycles[k] : k \in DOMAIN ts.cycles} = cyclic
            /\ \A m \in Ids(ts.results) \ cyclic :
                  \E k \in DOMAIN ts.sorted : ts.sorted[k].ModuleName = m

\* returned for three facts: one lies on a cycle, one depends on it and lies on
\* no cycle, one does neither and is the only fact in ordered
C26_Witness ==
    /\ ts.pc = "done"
    /\ Len(ts.results) = 3
    /\ Len(ts.cycles) = 2
    /\ Len(ts.sorted) = 1
    /\ \E m \in Ids(ts.results) : Contains(ts.cycles, m) /\ ~OnCycle(ts.results, m)

====
